---- MODULE Spec2Model ----
(***************************************************************************)
(* A model of mcpfile's connection lifecycle:                              *)
(*   - the managed client of packages/mcpfile/src/client.ts (one           *)
(*     connection, its state Ref, its reconnect counter, the               *)
(*     handleDisconnect fibers forked by the transport's close             *)
(*     notification),                                                      *)
(*   - the reconnect backoff computed in handleDisconnect,                 *)
(*   - the ClientManager of packages/mcpfile/src/manager.ts (registry,     *)
(*     aggregate state, hooks, bulk connect, reload, toJSON / fromJSON),   *)
(*   - the descriptors File.fromJson builds (src/unnamed/part_003).        *)
(* The MCP SDK client and its transports are not part of the repository:   *)
(* a handshake succeeds or fails, and a close notification arrives or      *)
(* not, as the environment chooses.                                        *)
(***************************************************************************)
EXTENDS Integers, Sequences, FiniteSets, TLC

VARIABLES
    \* ---- one managed client (client.ts) ----
    config,             \* ClientConfig given to ManagedClient.create
    createStatus,       \* "none" | "died" | "pending" | "rejected" | "resolved"
    connectionState,    \* Ref<ConnectionState>
    reconnectAttempts,  \* Ref<number>
    transport,          \* the SDK transport: "new" | "starting" | "open" | "closed"
    inFlight,           \* number of mcpClient.connect(transport) calls not yet settled
    sleeping,           \* number of handleDisconnect fibers inside Effect.sleep(delay)
    lastDelay,          \* the delay the last handleDisconnect fiber computed
    scopeClosed,        \* ManagedClient.disconnect() has closed the scope
    failedReconnects,   \* consecutive reconnect handshakes that failed (history)
    createError,        \* what ManagedClient.create's Effect failed with, if it did
    lastCall,           \* the last capability operation issued and how it ended
    \* ---- the backoff function applied on its own ----
    bInitial, bMaxDelay, bAttempt, bDelay,
    \* ---- the ClientManager (manager.ts) and its surroundings ----
    file,               \* the config file on disk: server id -> raw server object
    unreachable,        \* the servers whose endpoint refuses a handshake
    servers,            \* ClientManager.servers: id -> {client, state}
    stateRef,           \* ClientManager.stateRef: id -> ServerState
    configPath,         \* ClientManager.configPath
    op,                 \* the manager operation in progress or last finished
    task,               \* where each server's connectToServer call stands
    onErrorCalls,       \* hooks.onError calls per server id in this operation
    onChangeCalls,      \* hooks.onChange calls in this operation
    lastOnChange,       \* the snapshot the last onChange call was given
    connectCalls,       \* connectToServer calls per server id in this operation
    now,                \* Date.now()
    opsDone, editsDone, \* how many operations and file edits have been made
    retryTask,          \* ClientManager.retryTask's interval: "active" | "cancelled"
    sweeps,             \* how often the failed-server sweep has fired
    lastSweep,          \* what the last sweep saw failed and what it retried
    closed,             \* whether close() has resolved, and what it left behind
    json,               \* what the last toJSON call returned
    \* ---- File.fromJson applied on its own ----
    parseInput,         \* the JSON object and the ParseOptions it is given
    parseResult         \* the descriptor map it resolves with, or its error

clientVars == <<config, createStatus, connectionState, reconnectAttempts, transport,
                inFlight, sleeping, lastDelay, scopeClosed, failedReconnects,
                createError>>
backoffVars == <<bInitial, bMaxDelay, bAttempt, bDelay>>
managerVars == <<file, unreachable, servers, stateRef, configPath, op, task,
                 onErrorCalls, onChangeCalls, lastOnChange, connectCalls, now,
                 opsDone, editsDone>>
callVars == <<lastCall>>
upkeepVars == <<retryTask, sweeps, lastSweep, closed, json>>
parseVars == <<parseInput, parseResult>>
vars == <<clientVars, backoffVars, managerVars, callVars, upkeepVars, parseVars>>
notClientVars == <<backoffVars, managerVars, callVars, upkeepVars, parseVars>>
notBackoffVars == <<clientVars, managerVars, callVars, upkeepVars, parseVars>>
notManagerVars == <<clientVars, backoffVars, callVars, upkeepVars, parseVars>>
notCallVars == <<clientVars, backoffVars, managerVars, upkeepVars, parseVars>>
notUpkeepVars == <<clientVars, backoffVars, managerVars, callVars, parseVars>>
notParseVars == <<clientVars, backoffVars, managerVars, callVars, upkeepVars>>

Undefined == "undefined"
\* an optional number that was not given
NoNumber == 0 - 1

States == {"disconnected", "connecting", "connected", "reconnecting", "failed"}

\* ------------------------------------------------------------------ bounds
MaxConfiguredAttempts == 3
MaxBackoffAttempt == 8
MaxOps == 2
MaxEdits == 1
MaxSweeps == 2
MaxDeclared == 2

\* ------------------------------------------------------- program constants
DefaultMaxReconnectAttempts == 5
DefaultInitialReconnectDelay == 1000
DefaultMaxReconnectDelay == 30000

\* ------------------------------------------------------------------ helpers
\* JavaScript's `a ?? b`
OrDefault(v, d) == IF v = NoNumber THEN d ELSE v

Min(a, b) == IF a <= b THEN a ELSE b

\* JavaScript objects are functions from their keys; a key that is not there
\* reads as undefined.
Has(obj, key) == key \in DOMAIN obj
Get(obj, key) == IF key \in DOMAIN obj THEN obj[key] ELSE Undefined
Put(obj, key, val) == [k \in DOMAIN obj \cup {key} |-> IF k = key THEN val ELSE obj[k]]
Delete(obj, key) == [k \in DOMAIN obj \ {key} |-> obj[k]]
EmptyObject == [k \in {} |-> Undefined]
Merge(a, b) == [k \in DOMAIN a \cup DOMAIN b |-> IF k \in DOMAIN b THEN b[k] ELSE a[k]]

\* Math.pow(2, e) for the whole numbers e >= 0 the code passes
RECURSIVE Pow2(_)
Pow2(e) == IF e <= 0 THEN 1 ELSE 2 * Pow2(e - 1)

\* --------------------------------------------------------------- client.ts
\* createTransport: the kind is read from the descriptor's top-level
\* transportType; anything but stdio / http / sse throws.
createTransport(server) ==
    IF Get(server, "transportType") \in {"stdio", "http", "sse"} THEN "ok" ELSE "throws"

maxAttempts == OrDefault(config.maxReconnectAttempts, DefaultMaxReconnectAttempts)

\* handleDisconnect's give-up test
ExhaustedStrict(attempts, limit) == attempts > limit
Exhausted(attempts, limit) == attempts >= limit

\* handleDisconnect's delay before reconnect attempt `currentAttempt`
reconnectDelayOffByOne(initialDelay, maxDelay, currentAttempt) ==
    Min(initialDelay * Pow2(currentAttempt), maxDelay)
reconnectDelay(initialDelay, maxDelay, currentAttempt) ==
    Min(initialDelay * Pow2(currentAttempt - 1), maxDelay)

\* handleDisconnect scheduling one more reconnect when it gives up.
handleDisconnectRetriesFailed(st, att) ==
    IF st = "disconnected"
    THEN [state |-> st, attempts |-> att, sleeps |-> FALSE, delay |-> lastDelay]
    ELSE IF Exhausted(att, maxAttempts)
    THEN [state |-> "failed", attempts |-> att, sleeps |-> TRUE, delay |-> lastDelay]
    ELSE [state |-> "reconnecting", attempts |-> att + 1, sleeps |-> TRUE,
          delay |-> lastDelay]

\* handleDisconnect without its test for an intentional disconnect.
handleDisconnectIgnoringIntent(st, att) ==
    IF Exhausted(att, maxAttempts)
    THEN [state |-> "failed", attempts |-> att, sleeps |-> FALSE, delay |-> lastDelay]
    ELSE [state |-> "reconnecting", attempts |-> att + 1, sleeps |-> TRUE,
          delay |-> lastDelay]

\* handleDisconnect up to its Effect.sleep, run from the state (st, att):
\* what it leaves in the two Refs, whether the fiber goes to sleep, and the
\* delay it computed.
handleDisconnect(st, att) ==
    IF st = "disconnected"
    THEN [state |-> st, attempts |-> att, sleeps |-> FALSE, delay |-> lastDelay]
    ELSE IF Exhausted(att, maxAttempts)
    THEN [state |-> "failed", attempts |-> att, sleeps |-> FALSE, delay |-> lastDelay]
    ELSE [state |-> "reconnecting", attempts |-> att + 1, sleeps |-> TRUE,
          delay |-> reconnectDelay(
                        OrDefault(config.initialReconnectDelay, DefaultInitialReconnectDelay),
                        OrDefault(config.maxReconnectDelay, DefaultMaxReconnectDelay),
                        att + 1)]

\* mcpClient.onclose: fork handleDisconnect on the current Refs, or no
\* notification at all.
OnClose(notified, st, att) ==
    IF notified THEN handleDisconnect(st, att)
    ELSE [state |-> st, attempts |-> att, sleeps |-> FALSE, delay |-> lastDelay]

\* The errors mcpClient.connect(transport) may reject with.
SdkErrors == {"ECONNREFUSED", "Request timed out"}

\* create has not failed.
NoError == [rejection |-> "none", error |-> [_tag |-> "none", message |-> "", cause |-> Undefined]]

\* The plain Error createTransport throws.
UnknownTransportType ==
    [_tag |-> "Error", message |-> "Unknown transport type", cause |-> Undefined]

\* A ConnectionError that does not say what caused it.
connectFailureWithoutCause(error) ==
    [_tag |-> "ConnectionError", message |-> "Failed to connect to MCP server",
     cause |-> Undefined]

\* connect's tryPromise catch: the ConnectionError it makes of the error the
\* SDK rejected with.
connectFailure(error) ==
    [_tag |-> "ConnectionError", message |-> "Failed to connect to MCP server",
     cause |-> error]

\* The allowed lists a descriptor may carry in its _metadata: none at all,
\* or a list for some of the kinds (a list may be empty).
Names == {"a", "b"}
AllowedChoices ==
    {[tools |-> {"a"}],
     [tools |-> {}],
     [resources |-> {"a"}],
     [tools |-> {"b"}, prompts |-> {"a"}, resources |-> {"a", "b"}]}
Metadatas ==
    {[serverName |-> "server"]}
    \cup {[serverName |-> "server", allowed |-> a] : a \in AllowedChoices}

ClientConfigs ==
    [server : [transportType : {Undefined, "http", "sse", "stdio"},
               _metadata : Metadatas],
     maxReconnectAttempts : {NoNumber} \cup (0 .. MaxConfiguredAttempts),
     initialReconnectDelay : {NoNumber},
     maxReconnectDelay : {NoNumber}]

\* No capability operation has been issued yet.
NoCall ==
    [op |-> "none", name |-> "", state |-> "", outcome |-> "none", forwarded |-> FALSE,
     errorType |-> "", errorName |-> "", advertised |-> {}, result |-> {}]

\* File.fromJson has not been called.
NotParsed == [ok |-> FALSE, error |-> [_tag |-> "NotParsed"]]
ParseIdle ==
    /\ parseInput = [json |-> [mcpServers |-> [typeof |-> "undefined"]],
                     options |-> [k \in {} |-> Undefined]]
    /\ parseResult = NotParsed

InitClient ==
    /\ config \in ClientConfigs
    /\ createStatus = "none"
    /\ connectionState = "disconnected"
    /\ reconnectAttempts = 0
    /\ transport = "new"
    /\ inFlight = 0
    /\ sleeping = 0
    /\ lastDelay = 0
    /\ scopeClosed = FALSE
    /\ failedReconnects = 0
    /\ createError = NoError
    /\ lastCall = NoCall

\* ManagedClient.create -> makeClient: build the transport, make the Refs,
\* then `yield* connect` up to the handshake promise.
CreateClient ==
    /\ UNCHANGED notClientVars
    /\ createStatus = "none"
    /\ IF createTransport(config.server) = "throws"
       THEN /\ createStatus' = "died"
            /\ createError' = [rejection |-> "none", error |-> UnknownTransportType]
            /\ UNCHANGED <<connectionState, transport, inFlight>>
       ELSE /\ createStatus' = "pending"
            /\ connectionState' = "connecting"
            /\ transport' = "starting"
            /\ inFlight' = inFlight + 1
            /\ UNCHANGED createError
    /\ UNCHANGED <<config, reconnectAttempts, sleeping, lastDelay, scopeClosed,
                   failedReconnects>>

\* A connect that sets "connected" and leaves the attempt counter alone.
HandshakeSucceedsKeepingCount ==
    /\ UNCHANGED notClientVars
    /\ inFlight > 0
    /\ inFlight' = inFlight - 1
    /\ transport' = "open"
    /\ connectionState' = "connected"
    /\ failedReconnects' = 0
    /\ createStatus' = IF createStatus = "pending" THEN "resolved" ELSE createStatus
    /\ UNCHANGED <<config, reconnectAttempts, sleeping, lastDelay, scopeClosed,
                   createError>>

\* mcpClient.connect(transport) resolves: the rest of `connect`.
HandshakeSucceeds ==
    /\ UNCHANGED notClientVars
    /\ inFlight > 0
    /\ inFlight' = inFlight - 1
    /\ transport' = "open"
    /\ connectionState' = "connected"
    /\ reconnectAttempts' = 0
    /\ failedReconnects' = 0
    /\ createStatus' = IF createStatus = "pending" THEN "resolved" ELSE createStatus
    /\ UNCHANGED <<config, sleeping, lastDelay, scopeClosed, createError>>

\* mcpClient.connect(transport) rejects: `connect` fails with ConnectionError
\* and leaves "connecting" in the Ref. The first connect rejects create; a
\* reconnect's error is dropped by Effect.either. The SDK may or may not
\* report the closed transport through onclose.
HandshakeFails ==
    /\ UNCHANGED notClientVars
    /\ inFlight > 0
    /\ \E notified \in BOOLEAN :
         LET r == OnClose(notified, connectionState, reconnectAttempts) IN
         /\ connectionState' = r.state
         /\ reconnectAttempts' = r.attempts
         /\ sleeping' = IF r.sleeps THEN sleeping + 1 ELSE sleeping
         /\ lastDelay' = r.delay
    /\ inFlight' = inFlight - 1
    /\ transport' = "closed"
    /\ createStatus' = IF createStatus = "pending" THEN "rejected" ELSE createStatus
    /\ failedReconnects' = IF createStatus = "pending" THEN failedReconnects
                           ELSE failedReconnects + 1
    /\ IF createStatus = "pending"
       THEN \E error \in SdkErrors :
              createError' = [rejection |-> error, error |-> connectFailure(error)]
       ELSE createError' = createError
    /\ UNCHANGED <<config, scopeClosed>>

\* A closing transport whose error and close notifications both fork
\* handleDisconnect.
TransportClosesForksTwice ==
    /\ UNCHANGED notClientVars
    /\ transport = "open"
    /\ transport' = "closed"
    /\ LET r1 == handleDisconnect(connectionState, reconnectAttempts)
           r2 == handleDisconnect(r1.state, r1.attempts) IN
         /\ connectionState' = r2.state
         /\ reconnectAttempts' = r2.attempts
         /\ sleeping' = sleeping + (IF r1.sleeps THEN 1 ELSE 0) + (IF r2.sleeps THEN 1 ELSE 0)
         /\ lastDelay' = r2.delay
    /\ UNCHANGED <<config, createStatus, inFlight, scopeClosed, failedReconnects,
                   createError>>

\* The open transport closes on its own: onclose forks handleDisconnect.
TransportCloses ==
    /\ UNCHANGED notClientVars
    /\ transport = "open"
    /\ transport' = "closed"
    /\ LET r == OnClose(TRUE, connectionState, reconnectAttempts) IN
         /\ connectionState' = r.state
         /\ reconnectAttempts' = r.attempts
         /\ sleeping' = IF r.sleeps THEN sleeping + 1 ELSE sleeping
         /\ lastDelay' = r.delay
    /\ UNCHANGED <<config, createStatus, inFlight, scopeClosed, failedReconnects,
                   createError>>

\* Effect.sleep(delay) returns in a handleDisconnect fiber: it runs
\* `Effect.either(connect)` up to the handshake promise.
BackoffElapses ==
    /\ UNCHANGED notClientVars
    /\ sleeping > 0
    /\ sleeping' = sleeping - 1
    /\ connectionState' = "connecting"
    /\ transport' = "starting"
    /\ inFlight' = inFlight + 1
    /\ UNCHANGED <<config, createStatus, reconnectAttempts, lastDelay, scopeClosed,
                   failedReconnects, createError>>

\* ManagedClient.disconnect: Scope.close runs the finalizer once, which sets
\* "disconnected" and closes the SDK client; the close notification this may
\* cause finds "disconnected" in the Ref.
Disconnect ==
    /\ UNCHANGED notClientVars
    /\ createStatus = "resolved"
    /\ ~scopeClosed
    /\ scopeClosed' = TRUE
    /\ transport' = "closed"
    /\ \E notified \in BOOLEAN :
         LET r == OnClose(notified, "disconnected", reconnectAttempts) IN
         /\ connectionState' = r.state
         /\ reconnectAttempts' = r.attempts
         /\ sleeping' = IF r.sleeps THEN sleeping + 1 ELSE sleeping
         /\ lastDelay' = r.delay
    /\ UNCHANGED <<config, createStatus, inFlight, failedReconnects, createError>>

\* ------------------------------------------------- capability operations
Kinds == {"tools", "prompts", "resources"}
ListOps == {"listTools", "listPrompts", "listResources"}
PointOps == {"callTool", "getPrompt", "readResource"}

\* The kind whose allowed list an operation consults.
KindOfOp(o) ==
    IF o \in {"listTools", "callTool"} THEN "tools"
    ELSE IF o \in {"listPrompts", "getPrompt"} THEN "prompts"
    ELSE "resources"

\* The `type` a point operation puts into its FilteredError.
FilteredType(o) ==
    IF o = "callTool" THEN "tool" ELSE IF o = "getPrompt" THEN "prompt" ELSE "resource"

\* What the upstream server can advertise: tools and prompts have a name,
\* resources a uri and a name.
UpstreamItems(kind) ==
    IF kind = "resources"
    THEN {[uri |-> "a", name |-> "b"], [uri |-> "b", name |-> "a"]}
    ELSE {[name |-> n] : n \in Names}

\* The field of a listed item that the list operation hands to isAllowed:
\* tool.name, prompt.name, resource.uri.
FilterKey(kind, item) == IF kind = "resources" THEN item.uri ELSE item.name

\* An allowed list whose entries match every name that begins with them.
BeginsWith(name, entry) ==
    /\ Len(entry) <= Len(name)
    /\ SubSeq(name, 1, Len(entry)) = entry
isAllowedByPrefix(type, name, server) ==
    IF ~Has(server._metadata, "allowed") THEN TRUE
    ELSE IF ~Has(server._metadata.allowed, type) THEN TRUE
    ELSE \E entry \in server._metadata.allowed[type] : BeginsWith(name, entry)

\* isAllowed(type, name, server)
isAllowedAnyKind(type, name, server) ==
    IF ~Has(server._metadata, "allowed") THEN TRUE
    ELSE \E k \in DOMAIN server._metadata.allowed : name \in server._metadata.allowed[k]
isAllowed(type, name, server) ==
    IF ~Has(server._metadata, "allowed") THEN TRUE
    ELSE IF ~Has(server._metadata.allowed, type) THEN TRUE
    ELSE name \in server._metadata.allowed[type]

\* ensureConnected passes
ensureNotDisconnected(st) == st /= "disconnected"
ensureConnected(st) == st = "connected"

\* The list operations' filter: applied when a list is configured for the
\* kind.
filterListedByName(kind, items, server) ==
    IF Has(server._metadata, "allowed") /\ Has(server._metadata.allowed, kind)
    THEN {i \in items : isAllowed(kind, i.name, server)}
    ELSE items
filterListed(kind, items, server) ==
    IF Has(server._metadata, "allowed") /\ Has(server._metadata.allowed, kind)
    THEN {i \in items : isAllowed(kind, FilterKey(kind, i), server)}
    ELSE items

\* One capability operation run in connection state st: `advertised` is
\* what the upstream would list and `answers` whether the request, if one
\* is sent, succeeds. `forwarded` says that a request went to the SDK client.
capability(o, name, st, server, advertised, answers) ==
    LET call == [NoCall EXCEPT !.op = o, !.name = name, !.state = st] IN
    IF ~ensureConnected(st)
    THEN [call EXCEPT !.outcome = "NotConnectedError"]
    ELSE IF o \in PointOps /\ ~isAllowed(KindOfOp(o), name, server)
    THEN [call EXCEPT !.outcome = "FilteredError",
                      !.errorType = FilteredType(o), !.errorName = name]
    ELSE IF ~answers
    THEN [call EXCEPT !.outcome = "ConnectionError", !.forwarded = TRUE]
    ELSE IF o \in PointOps
    THEN [call EXCEPT !.outcome = "ok", !.forwarded = TRUE]
    ELSE [call EXCEPT !.outcome = "ok", !.forwarded = TRUE,
                      !.advertised = advertised,
                      !.result = filterListed(KindOfOp(o), advertised, server)]

\* A FilteredError that marks the connection failed.
CapabilityOpFailsConnection ==
    /\ UNCHANGED <<backoffVars, managerVars, upkeepVars, parseVars>>
    /\ createStatus = "resolved"
    /\ connectionState = "connected"
    /\ \E o \in PointOps, name \in Names :
         /\ ~isAllowed(KindOfOp(o), name, config.server)
         /\ lastCall' = capability(o, name, connectionState, config.server, {}, TRUE)
    /\ connectionState' = "failed"
    /\ UNCHANGED <<config, createStatus, reconnectAttempts, transport, inFlight,
                   sleeping, lastDelay, scopeClosed, failedReconnects, createError>>

\* A caller that holds the client (create has resolved) issues one of the
\* six capability operations. Nothing but the outcome changes.
CapabilityOp ==
    /\ UNCHANGED notCallVars
    /\ createStatus = "resolved"
    /\ \E o \in ListOps \cup PointOps, answers \in BOOLEAN :
         IF o \in PointOps
         THEN \E name \in Names :
                lastCall' = capability(o, name, connectionState, config.server, {}, answers)
         ELSE \E advertised \in SUBSET UpstreamItems(KindOfOp(o)) :
                lastCall' = capability(o, "", connectionState, config.server,
                                       advertised, answers)

NextClient ==
    \/ CapabilityOp
    \/ CreateClient
    \/ HandshakeSucceeds
    \/ HandshakeFails
    \/ TransportCloses
    \/ BackoffElapses
    \/ Disconnect

\* ---------------------------------- point operations on structured names
\* Names written as sequences of pieces, so that one name can be the
\* beginning of another ("docs://" and "docs://guide").
PieceNames == {<<"docs://">>, <<"docs://", "guide">>, <<"search">>}
PieceAllowedChoices ==
    {[resources |-> {<<"docs://">>}],
     [tools |-> {<<"search">>}, resources |-> {}],
     [tools |-> {<<"docs://", "guide">>}, prompts |-> {<<"docs://">>, <<"search">>}],
     [prompts |-> {}]}
PieceClientConfigs ==
    [server : [transportType : {"http", "stdio"},
               _metadata : {[serverName |-> "server"]}
                           \cup {[serverName |-> "server", allowed |-> a] :
                                    a \in PieceAllowedChoices}],
     maxReconnectAttempts : {NoNumber},
     initialReconnectDelay : {NoNumber},
     maxReconnectDelay : {NoNumber}]

InitPieceClient ==
    /\ config \in PieceClientConfigs
    /\ createStatus = "none"
    /\ connectionState = "disconnected"
    /\ reconnectAttempts = 0
    /\ transport = "new"
    /\ inFlight = 0
    /\ sleeping = 0
    /\ lastDelay = 0
    /\ scopeClosed = FALSE
    /\ failedReconnects = 0
    /\ createError = NoError
    /\ lastCall = NoCall

\* callTool / getPrompt / readResource issued by a caller that holds the
\* client.
PointOp ==
    /\ UNCHANGED notCallVars
    /\ createStatus = "resolved"
    /\ \E o \in PointOps, name \in PieceNames, answers \in BOOLEAN :
         lastCall' = capability(o, name, connectionState, config.server, {}, answers)

NextPieceClient ==
    \/ CreateClient
    \/ HandshakeSucceeds
    \/ PointOp

\* ------------------------------------------------- the backoff on its own
BackoffIdle == bInitial = NoNumber /\ bMaxDelay = NoNumber /\ bAttempt = 0 /\ bDelay = 0

InitialDelays == {NoNumber, 1, 500, 1000}
MaxDelays == {NoNumber, 4000, 30000}

InitBackoff ==
    /\ bInitial \in InitialDelays
    /\ bMaxDelay \in MaxDelays
    /\ bAttempt = 0
    /\ bDelay = 0

\* The next unexpected close: the counter goes up and the delay is computed.
NextAttempt ==
    /\ UNCHANGED notBackoffVars
    /\ bAttempt < MaxBackoffAttempt
    /\ bAttempt' = bAttempt + 1
    /\ bDelay' = reconnectDelay(OrDefault(bInitial, DefaultInitialReconnectDelay),
                                OrDefault(bMaxDelay, DefaultMaxReconnectDelay),
                                bAttempt + 1)
    /\ UNCHANGED <<bInitial, bMaxDelay>>

NextBackoff == NextAttempt

ClientIdle ==
    /\ config = [server |-> [transportType |-> Undefined,
                             _metadata |-> [serverName |-> "server"]],
                 maxReconnectAttempts |-> NoNumber,
                 initialReconnectDelay |-> NoNumber,
                 maxReconnectDelay |-> NoNumber]
    /\ createStatus = "none"
    /\ connectionState = "disconnected"
    /\ reconnectAttempts = 0
    /\ transport = "new"
    /\ inFlight = 0
    /\ sleeping = 0
    /\ lastDelay = 0
    /\ scopeClosed = FALSE
    /\ failedReconnects = 0
    /\ createError = NoError
    /\ lastCall = NoCall

\* ------------------------------------------ the config file (File.fromJson)
ServerOrder == <<"s1", "s2", "s3">>
ServerIds == {ServerOrder[i] : i \in 1 .. Len(ServerOrder)}
ConfigPath == "config.mcp.json"

\* A path at which there is no file.
MissingPath == "missing.mcp.json"

\* File.fromPath: reads the file at the path; ENOENT is a FileNotFoundError.
fromPath(path) == IF path = ConfigPath THEN "ok" ELSE "FileNotFoundError"

\* The servers of the model: s1 is declared by url, s2 by command, s3 by
\* url with an explicit type "sse".
KindOf(s) == IF s = "s1" THEN "http" ELSE IF s = "s2" THEN "stdio" ELSE "sse"

\* One raw server object of the file's mcpServers map.
RawServer(s, disabled, target) ==
    IF KindOf(s) = "http" THEN [url |-> target, disabled |-> disabled]
    ELSE IF KindOf(s) = "sse" THEN [type |-> "sse", url |-> target, disabled |-> disabled]
    ELSE [command |-> target, disabled |-> disabled]

RawChoices(s) ==
    {RawServer(s, FALSE, "v1"), RawServer(s, FALSE, "v2"), RawServer(s, TRUE, "v1")}

InitialRawChoices(s) == {RawServer(s, FALSE, "v1"), RawServer(s, TRUE, "v1")}

InitialFiles ==
    UNION {{f \in [D -> UNION {InitialRawChoices(s) : s \in D}] :
                \A s \in D : f[s] \in InitialRawChoices(s)} : D \in SUBSET ServerIds}

\* ServerConfigSchema: the type is the explicit one, else "http" for a url
\* and "stdio" for a command; disabled defaults to false.
validateServerConfig(raw) ==
    Merge([disabled |-> FALSE,
           type |-> IF Has(raw, "url") THEN "http"
                    ELSE IF Has(raw, "command") THEN "stdio" ELSE Undefined],
          raw)

configToTransport(cfg) ==
    IF cfg.type = "http" THEN [transportConfig |-> [url |-> cfg.url], transportType |-> "http"]
    ELSE IF cfg.type = "sse" THEN [transportConfig |-> [url |-> cfg.url], transportType |-> "sse"]
    ELSE [transportConfig |-> [command |-> cfg.command], transportType |-> "stdio"]

\* The descriptor File.fromJson stores for one server: transportConfig and
\* _metadata (options and allowed are undefined). The transport kind is in
\* _metadata only.
ServerConnectParams(s, raw) ==
    LET cfg == validateServerConfig(raw)
        t == configToTransport(cfg)
    IN  [transportConfig |-> t.transportConfig,
         _metadata |-> [version |-> "0.0.1",
                        rawConfig |-> raw,
                        serverName |-> s,
                        transportType |-> t.transportType,
                        disabled |-> cfg.disabled]]

\* File.fromJson / getConnectParams: disabled servers are dropped unless
\* includeDisabled is set.
fromJson(mcpServers, includeDisabled) ==
    [s \in {x \in DOMAIN mcpServers :
               includeDisabled \/ ~validateServerConfig(mcpServers[x]).disabled}
        |-> ServerConnectParams(s, mcpServers[s])]

\* -------------------------------------------------------------- manager.ts
\* The methods class ManagedClient defines (client.ts).
ManagedClientMethods ==
    {"getState", "disconnect", "listTools", "callTool", "listPrompts", "getPrompt",
     "listResources", "readResource"}

\* The methods connectToServer calls on the client it has created.
ManagerCallsOnClient ==
    {"getState", "getSessionId", "getServerCapabilities", "getServerVersion",
     "getInstructions"}

\* ManagedClient.create(config): createTransport throws inside the effect
\* ("died"), or the handshake decides.
ManagedClientCreate(server, reachable) ==
    IF createTransport(server) = "throws" THEN "died"
    ELSE IF reachable THEN "resolved" ELSE "rejected"

\* connectToServer's try block: what is caught, if anything. `leaked` says
\* that a connected client exists which the catch block does not close.
TryConnect(server, reachable) ==
    LET created == ManagedClientCreate(server, reachable) IN
    IF created = "died"
    THEN [ok |-> FALSE, message |-> "Unknown transport type: undefined", leaked |-> FALSE]
    ELSE IF created = "rejected"
    THEN [ok |-> FALSE, message |-> "Failed to connect to MCP server", leaked |-> FALSE]
    ELSE IF ~(ManagerCallsOnClient \subseteq ManagedClientMethods)
    THEN [ok |-> FALSE, message |-> "client.getSessionId is not a function", leaked |-> TRUE]
    ELSE [ok |-> TRUE, message |-> "", leaked |-> FALSE]

\* ServerState.metadata as connectToServer builds it: transportType is read
\* from the descriptor's top level.
StateMetadata(serverParams) ==
    Merge([serverName |-> serverParams._metadata.serverName,
           disabled |-> serverParams._metadata.disabled],
          IF Has(serverParams, "transportType")
          THEN [transportType |-> serverParams.transportType] ELSE EmptyObject)

\* The state connectToServer builds for a client it has created:
\* clientState is what `await client.getState()` returned.
connectedState(s, serverParams, clientState) ==
    Merge([serverId |-> s, connectionState |-> clientState,
           metadata |-> StateMetadata(serverParams),
           reconnectAttempts |-> 0],
          IF clientState = "connected" THEN [lastConnectedAt |-> now] ELSE EmptyObject)

errorState(s, serverParams, message) ==
    [serverId |-> s, connectionState |-> "failed",
     metadata |-> StateMetadata(serverParams),
     error |-> [message |-> message, timestamp |-> now],
     reconnectAttempts |-> 0]

\* JSON.stringify of a metadata object: its keys in insertion order with
\* their values, undefined values left out.
MetadataKeyOrder ==
    <<"version", "rawConfig", "serverName", "transportType", "disabled", "allowed">>
JsonStringify(obj) ==
    LET keys == SelectSeq(MetadataKeyOrder, LAMBDA k : k \in DOMAIN obj) IN
    [keys |-> keys, values |-> [k \in DOMAIN obj |-> obj[k]]]

\* reloadConfig's test for a server that is in the registry.
ConfigChanged(current, newConfig) ==
    JsonStringify(current.state.metadata).keys /= JsonStringify(newConfig._metadata).keys
    \/ JsonStringify(current.state.metadata) /= JsonStringify(newConfig._metadata)

\* The ids of a set in the order of ServerOrder.
InOrder(ids) == SelectSeq(ServerOrder, LAMBDA s : s \in ids)

\* disconnectServer(s) on a registry and an aggregate state: nothing for an
\* id that is not in the registry; else the client is disconnected, the
\* entry deleted from both, and onChange notified.
disconnectServer(s, reg, states) ==
    IF ~Has(reg, s)
    THEN [servers |-> reg, states |-> states, notified |-> FALSE]
    ELSE [servers |-> Delete(reg, s), states |-> Delete(states, s), notified |-> TRUE]

\* An entry whose wasConnected flag looks at the current state only.
SerializableOnlyIfConnected(st) ==
    Merge([serverId |-> st.serverId,
           connectionState |-> st.connectionState,
           wasConnected |-> (st.connectionState = "connected"),
           reconnectAttempts |-> st.reconnectAttempts],
          [k \in DOMAIN st \cap {"sessionId", "lastConnectedAt", "error"} |-> st[k]])

\* toJSON's entry for one server.
SerializableServerState(st) ==
    Merge([serverId |-> st.serverId,
           connectionState |-> st.connectionState,
           wasConnected |-> (st.connectionState = "connected" \/ Has(st, "lastConnectedAt")),
           reconnectAttempts |-> st.reconnectAttempts],
          [k \in DOMAIN st \cap {"sessionId", "lastConnectedAt", "error"} |-> st[k]])

toJSON(states, path) ==
    Merge([servers |-> [s \in DOMAIN states |-> SerializableServerState(states[s])],
           timestamp |-> now],
          IF path = Undefined THEN EmptyObject ELSE [configPath |-> path])

\* fromJSON's decision for one declared server.
shouldConnectAnyKind(savedServers, s, serverParams) ==
    Has(savedServers, s) /\ savedServers[s].wasConnected
shouldConnect(savedServers, s, serverParams) ==
    /\ Has(savedServers, s)
    /\ savedServers[s].wasConnected
    /\ Get(serverParams, "transportType") \in {"sse", "stdio"}

\* The declared servers fromJSON calls connectToServer for.
ConnectsAllDeclared(savedServers, params) == DOMAIN params
ConnectsOnRestore(savedServers, params) ==
    {s \in DOMAIN params :
        \/ shouldConnect(savedServers, s, params[s])
        \/ ~Has(savedServers, s)}

\* Snapshots a caller may hand to fromJSON.
SnapshotEntry(s, was) ==
    IF was
    THEN [serverId |-> s, connectionState |-> "connected", wasConnected |-> TRUE,
          reconnectAttempts |-> 0, lastConnectedAt |-> 0]
    ELSE [serverId |-> s, connectionState |-> "failed", wasConnected |-> FALSE,
          reconnectAttempts |-> 0,
          error |-> [message |-> "Failed to connect to MCP server", timestamp |-> 0]]

Snapshots ==
    {[servers |-> [s \in DOMAIN w |-> SnapshotEntry(s, w[s])],
      timestamp |-> 0, configPath |-> ConfigPath] :
        w \in UNION {[D -> BOOLEAN] : D \in SUBSET ServerIds}}
    \cup {[servers |-> EmptyObject, timestamp |-> 0]}

NoSnapshot == EmptyObject

\* The servers of an aggregate state that are `failed`.
FailedServers(states) == {s \in DOMAIN states : states[s].connectionState = "failed"}

\* No sweep has fired.
NoSweep == [failed |-> {}, retried |-> {}]

\* close() has not been called on this manager.
NotClosed == [resolved |-> FALSE, ops |-> 0, servers |-> {}, states |-> {}]

\* The operation record: which public method runs or ran last, how far it
\* is, the ids the file declared and the descriptors it parsed, the steps
\* its loop has left, the snapshot it was given, what it has thrown, and
\* the manager as it was when the method was called.
Idle == [name |-> "none", phase |-> "idle", declared |-> {}, params |-> EmptyObject,
         queue |-> <<>>, snapshot |-> NoSnapshot, error |-> "none",
         before |-> [servers |-> EmptyObject, states |-> EmptyObject,
                     params |-> EmptyObject]]

InitManager ==
    /\ file \in InitialFiles
    /\ unreachable \in {{}} \cup {{s} : s \in ServerIds}
    /\ servers = EmptyObject
    /\ stateRef = EmptyObject
    /\ configPath = Undefined
    /\ op = Idle
    /\ task = [s \in ServerIds |-> "idle"]
    /\ onErrorCalls = [s \in ServerIds |-> 0]
    /\ onChangeCalls = 0
    /\ lastOnChange = EmptyObject
    /\ connectCalls = [s \in ServerIds |-> 0]
    /\ now = 0
    /\ opsDone = 0
    /\ editsDone = 0
    /\ retryTask = "active"
    /\ sweeps = 0
    /\ lastSweep = NoSweep
    /\ closed = NotClosed
    /\ json = NoSnapshot

CanStart == op.phase /= "running" /\ opsDone < MaxOps

NoTaskActive == \A s \in ServerIds : task[s] \in {"idle", "done"}

\* Bookkeeping common to the start of every operation.
StartOp ==
    /\ opsDone' = opsDone + 1
    /\ now' = now + 1
    /\ onErrorCalls' = [s \in ServerIds |-> 0]
    /\ onChangeCalls' = 0
    /\ lastOnChange' = EmptyObject

\* The file changes on disk between two operations.
EditFile ==
    /\ UNCHANGED notManagerVars
    /\ op.phase \in {"done", "rejected"}
    /\ editsDone < MaxEdits
    /\ editsDone' = editsDone + 1
    /\ \E s \in ServerIds :
         \/ Has(file, s) /\ file' = Delete(file, s)
         \/ \E raw \in RawChoices(s) :
              (IF Has(file, s) THEN file[s] /= raw ELSE TRUE) /\ file' = Put(file, s, raw)
    /\ UNCHANGED <<unreachable, servers, stateRef, configPath, op, task, onErrorCalls,
                   onChangeCalls, lastOnChange, connectCalls, now, opsDone>>

\* connectFromFile: remember the path, parse the file, and call
\* connectToServer for every descriptor at once (connectToServers); each call
\* runs up to its `await ManagedClient.create`.
ConnectFromFile ==
    /\ UNCHANGED notManagerVars
    /\ CanStart
    /\ StartOp
    /\ configPath' = ConfigPath
    /\ \E includeDisabled \in BOOLEAN :
         LET params == fromJson(file, includeDisabled) IN
         /\ op' = [name |-> "connectFromFile",
                   phase |-> IF DOMAIN params = {} THEN "done" ELSE "running",
                   declared |-> DOMAIN file, params |-> params, queue |-> <<>>,
                   snapshot |-> NoSnapshot, error |-> "none",
                   before |-> [servers |-> servers, states |-> stateRef,
                               params |-> op.params]]
         /\ task' = [s \in ServerIds |-> IF s \in DOMAIN params THEN "create" ELSE "idle"]
         /\ connectCalls' = [s \in ServerIds |-> IF s \in DOMAIN params THEN 1 ELSE 0]
    /\ UNCHANGED <<file, unreachable, servers, stateRef, editsDone>>

\* reloadConfig's first test: `!this.configPath`.
reloadConfigNeverRejects(path) == FALSE
reloadConfigRejects(path) == path = Undefined

\* connectFromFile(filepath) for a path with no file: the path is remembered
\* before File.fromPath is awaited, and the rejection of File.fromPath
\* rejects the call.
ConnectFromMissingFile ==
    /\ UNCHANGED notManagerVars
    /\ CanStart
    /\ StartOp
    /\ configPath' = MissingPath
    /\ op' = [Idle EXCEPT !.name = "connectFromFile", !.phase = "rejected",
                          !.error = fromPath(MissingPath),
                          !.before = [servers |-> servers, states |-> stateRef,
                                      params |-> op.params,
                                      configPath |-> configPath]]
    /\ task' = [s \in ServerIds |-> "idle"]
    /\ connectCalls' = [s \in ServerIds |-> 0]
    /\ UNCHANGED <<file, unreachable, servers, stateRef, editsDone>>

\* reloadConfig: without a remembered path it throws ManagerError; with one
\* it parses again, works out the removed and the changed servers, then
\* handles them one after the other.
ReloadConfig ==
    /\ UNCHANGED notManagerVars
    /\ CanStart
    /\ StartOp
    /\ task' = [s \in ServerIds |-> "idle"]
    /\ connectCalls' = [s \in ServerIds |-> 0]
    /\ UNCHANGED <<file, unreachable, servers, stateRef, configPath, editsDone>>
    /\ IF reloadConfigRejects(configPath)
       THEN op' = [Idle EXCEPT !.name = "reloadConfig", !.phase = "rejected",
                               !.error = "ManagerError",
                               !.before = [servers |-> servers, states |-> stateRef,
                                           params |-> op.params]]
       ELSE IF fromPath(configPath) /= "ok"
       THEN op' = [Idle EXCEPT !.name = "reloadConfig", !.phase = "rejected",
                               !.error = fromPath(configPath),
                               !.before = [servers |-> servers, states |-> stateRef,
                                           params |-> op.params]]
       ELSE
       \E includeDisabled \in BOOLEAN :
         LET newParams == fromJson(file, includeDisabled)
             removed == DOMAIN stateRef \ DOMAIN newParams
             changed == {s \in DOMAIN newParams :
                            \/ ~Has(servers, s)
                            \/ ConfigChanged(servers[s], newParams[s])}
             queue == [i \in 1 .. Len(InOrder(removed)) |->
                          [do |-> "disconnect", id |-> InOrder(removed)[i]]]
                      \o [i \in 1 .. Len(InOrder(changed)) |->
                          [do |-> "connect", id |-> InOrder(changed)[i]]]
         IN
         op' = [name |-> "reloadConfig",
                phase |-> IF queue = <<>> THEN "done" ELSE "running",
                declared |-> DOMAIN file, params |-> newParams, queue |-> queue,
                snapshot |-> NoSnapshot, error |-> "none",
                before |-> [servers |-> servers, states |-> stateRef,
                            params |-> op.params]]

\* ClientManager.fromJSON: a new manager; with a configPath in the snapshot
\* the file is parsed and the chosen servers are connected one after the
\* other.
FromJSON ==
    /\ UNCHANGED <<clientVars, backoffVars, callVars, parseVars, sweeps, lastSweep, json>>
    /\ retryTask' = "active"
    /\ closed' = NotClosed
    /\ CanStart
    /\ StartOp
    /\ \E snap \in (IF opsDone = 0 THEN Snapshots ELSE {}) \cup {toJSON(stateRef, configPath)} :
       \E includeDisabled \in BOOLEAN :
         LET params == IF Has(snap, "configPath")
                       THEN fromJson(file, includeDisabled) ELSE EmptyObject
             chosen == ConnectsOnRestore(snap.servers, params)
             queue == [i \in 1 .. Len(InOrder(chosen)) |->
                          [do |-> "connect", id |-> InOrder(chosen)[i]]]
         IN
         /\ configPath' = Get(snap, "configPath")
         /\ op' = [name |-> "fromJSON",
                   phase |-> IF queue = <<>> THEN "done" ELSE "running",
                   declared |-> IF Has(snap, "configPath") THEN DOMAIN file ELSE {},
                   params |-> params, queue |-> queue, snapshot |-> snap,
                   error |-> "none",
                   before |-> [servers |-> EmptyObject, states |-> EmptyObject,
                               params |-> EmptyObject]]
    /\ servers' = EmptyObject
    /\ stateRef' = EmptyObject
    /\ task' = [s \in ServerIds |-> "idle"]
    /\ connectCalls' = [s \in ServerIds |-> 0]
    /\ UNCHANGED <<file, unreachable, editsDone>>

\* The next step of reloadConfig's or fromJSON's loop: disconnectServer for
\* a removed server; for a server to connect, disconnectServer if it is in
\* the registry and then connectToServer up to its `await
\* ManagedClient.create`.
RunQueue ==
    /\ UNCHANGED notManagerVars
    /\ op.phase = "running"
    /\ op.queue /= <<>>
    /\ NoTaskActive
    /\ LET head == Head(op.queue)
           d == disconnectServer(head.id, servers, stateRef)
       IN
       /\ servers' = d.servers
       /\ stateRef' = d.states
       /\ onChangeCalls' = IF d.notified THEN onChangeCalls + 1 ELSE onChangeCalls
       /\ lastOnChange' = IF d.notified THEN d.states ELSE lastOnChange
       /\ IF head.do = "disconnect"
          THEN /\ op' = [op EXCEPT !.queue = Tail(op.queue),
                                   !.phase = IF Tail(op.queue) = <<>> THEN "done"
                                             ELSE "running"]
               /\ UNCHANGED <<task, connectCalls>>
          ELSE /\ task' = [task EXCEPT ![head.id] = "create"]
               /\ connectCalls' = [connectCalls EXCEPT ![head.id] = @ + 1]
               /\ UNCHANGED op
    /\ UNCHANGED <<file, unreachable, configPath, onErrorCalls, now, opsDone, editsDone>>

\* connectToServers settling with the first call that ends.
AfterTaskRace(s) == [op EXCEPT !.phase = "done"]

\* What the end of server s's connectToServer call means for the operation:
\* the bulk connect ends with its last call, a loop moves to its next step.
AfterTask(s) ==
    IF op.name = "connectFromFile"
    THEN [op EXCEPT !.phase = IF \A x \in ServerIds \ {s} : task[x] \in {"idle", "done"}
                              THEN "done" ELSE "running"]
    ELSE [op EXCEPT !.queue = Tail(op.queue),
                    !.phase = IF Tail(op.queue) = <<>> THEN "done" ELSE "running"]

\* `await ManagedClient.create` settles in connectToServer(s). On success
\* the state is built, the client questioned, the registry entry set and
\* the aggregate state updated; whatever is thrown on the way is caught and
\* the aggregate state gets the error state instead.
CreateSettles(s) ==
    /\ UNCHANGED notManagerVars
    /\ task[s] = "create"
    /\ LET serverParams == op.params[s]
           r == TryConnect(serverParams, s \notin unreachable)
       IN
       IF r.ok
       THEN \E clientState \in {"connected", "reconnecting"} :
            /\ servers' = Put(servers, s,
                              [client |-> [server |-> serverParams],
                               state |-> connectedState(s, serverParams, clientState)])
            /\ stateRef' = Put(stateRef, s, connectedState(s, serverParams, clientState))
            /\ task' = [task EXCEPT ![s] = "notify"]
       ELSE /\ stateRef' = Put(stateRef, s, errorState(s, serverParams, r.message))
            /\ task' = [task EXCEPT ![s] = "notifyError"]
            /\ UNCHANGED servers
    /\ UNCHANGED <<file, unreachable, configPath, op, onErrorCalls, onChangeCalls,
                   lastOnChange, connectCalls, now, opsDone, editsDone>>

\* onChange given only the entry that changed.
NotifyStateChangeDelta(s) ==
    /\ UNCHANGED notManagerVars
    /\ task[s] \in {"notify", "notifyError"}
    /\ onChangeCalls' = onChangeCalls + 1
    /\ lastOnChange' = [k \in {s} |-> stateRef[k]]
    /\ task' = [task EXCEPT ![s] = "onError"]
    /\ UNCHANGED <<file, unreachable, servers, stateRef, configPath, op, onErrorCalls,
                   connectCalls, now, opsDone, editsDone>>

\* updateState's notifyStateChange: onChange gets the aggregate state as it
\* is now.
NotifyStateChange(s) ==
    /\ UNCHANGED notManagerVars
    /\ task[s] \in {"notify", "notifyError"}
    /\ onChangeCalls' = onChangeCalls + 1
    /\ lastOnChange' = stateRef
    /\ IF task[s] = "notifyError"
       THEN task' = [task EXCEPT ![s] = "onError"] /\ UNCHANGED op
       ELSE task' = [task EXCEPT ![s] = "done"] /\ op' = AfterTask(s)
    /\ UNCHANGED <<file, unreachable, servers, stateRef, configPath, onErrorCalls,
                   connectCalls, now, opsDone, editsDone>>

\* The end of connectToServer's catch block: hooks.onError(serverId, error).
OnErrorHook(s) ==
    /\ UNCHANGED notManagerVars
    /\ task[s] = "onError"
    /\ onErrorCalls' = [onErrorCalls EXCEPT ![s] = @ + 1]
    /\ task' = [task EXCEPT ![s] = "done"]
    /\ op' = AfterTask(s)
    /\ UNCHANGED <<file, unreachable, servers, stateRef, configPath, onChangeCalls,
                   lastOnChange, connectCalls, now, opsDone, editsDone>>

\* ------------------------------------------- sweep, close and toJSON
\* The callback of startFailedRetryTask's setInterval fires: it reads the
\* aggregate state and, for a failed server that is in the registry, only
\* logs. The servers it makes a connect attempt for: none.
sweepRetries(states, reg) == {}

SweepFires ==
    /\ UNCHANGED notUpkeepVars
    /\ retryTask = "active"
    /\ sweeps < MaxSweeps
    /\ sweeps' = sweeps + 1
    /\ lastSweep' = [failed |-> FailedServers(stateRef),
                     retried |-> sweepRetries(stateRef, servers)]
    /\ UNCHANGED <<retryTask, closed, json>>

\* disconnectServer for each id of a sequence.
RECURSIVE disconnectAll(_, _, _)
disconnectAll(ids, reg, states) ==
    IF ids = <<>>
    THEN [servers |-> reg, states |-> states, notified |-> 0]
    ELSE LET d == disconnectServer(Head(ids), reg, states)
             rest == disconnectAll(Tail(ids), d.servers, d.states)
         IN  [rest EXCEPT !.notified = @ + (IF d.notified THEN 1 ELSE 0)]

\* What close() does to the interval.
keepRetryTask(t) == t
cancelRetryTask(t) == "cancelled"

\* close(): cancel the sweep, then disconnectServer for every id in the
\* registry; a failing client.disconnect() is caught inside disconnectServer.
Close ==
    /\ UNCHANGED <<clientVars, backoffVars, callVars, parseVars, sweeps, lastSweep, json>>
    /\ CanStart
    /\ StartOp
    /\ retryTask' = cancelRetryTask(retryTask)
    /\ LET d == disconnectAll(InOrder(DOMAIN servers), servers, stateRef) IN
       /\ servers' = d.servers
       /\ stateRef' = d.states
       /\ onChangeCalls' = d.notified
       /\ lastOnChange' = IF d.notified > 0 THEN d.states ELSE EmptyObject
       /\ closed' = [resolved |-> TRUE, ops |-> opsDone + 1,
                     servers |-> DOMAIN d.servers, states |-> DOMAIN d.states]
    /\ op' = [Idle EXCEPT !.name = "close", !.phase = "done",
                          !.before = [servers |-> servers, states |-> stateRef,
                                      params |-> op.params]]
    /\ task' = [s \in ServerIds |-> "idle"]
    /\ connectCalls' = [s \in ServerIds |-> 0]
    /\ UNCHANGED <<file, unreachable, configPath, editsDone>>

\* close() called while connectFromFile has not resolved: the calls of
\* connectToServer that wait for ManagedClient.create are not in the
\* registry, and close() awaits nothing but the registry's disconnects.
CloseWhileConnecting ==
    /\ UNCHANGED <<clientVars, backoffVars, callVars, parseVars, sweeps, lastSweep, json>>
    /\ op.name = "connectFromFile"
    /\ op.phase = "running"
    /\ ~closed.resolved
    /\ retryTask' = cancelRetryTask(retryTask)
    /\ LET d == disconnectAll(InOrder(DOMAIN servers), servers, stateRef) IN
       /\ servers' = d.servers
       /\ stateRef' = d.states
       /\ onChangeCalls' = onChangeCalls + d.notified
       /\ lastOnChange' = IF d.notified > 0 THEN d.states ELSE lastOnChange
       /\ closed' = [resolved |-> TRUE, ops |-> opsDone,
                     servers |-> DOMAIN d.servers, states |-> DOMAIN d.states]
    /\ UNCHANGED <<file, unreachable, configPath, op, task, onErrorCalls, connectCalls,
                   now, opsDone, editsDone>>

\* toJSON(): the caller gets the snapshot of the manager as it is now.
ToJSON ==
    /\ UNCHANGED notUpkeepVars
    /\ json' = toJSON(stateRef, configPath)
    /\ UNCHANGED <<retryTask, sweeps, lastSweep, closed>>

\* Aggregate states of the ServerState type, for toJSON applied on its own.
ServerStates(s) ==
    LET base(st, n) == [serverId |-> s, connectionState |-> st,
                        metadata |-> [serverName |-> s, disabled |-> FALSE],
                        reconnectAttempts |-> n]
        err == [error |-> [message |-> "Failed to connect to MCP server", timestamp |-> 0]]
    IN  {base("disconnected", 0),
         Merge(base("failed", 0), err),
         Merge(base("connected", 0), [lastConnectedAt |-> 0]),
         Merge(base("connected", 0), [lastConnectedAt |-> 0, sessionId |-> "session"]),
         Merge(Merge(base("failed", 2), err), [lastConnectedAt |-> 0])}

AggregateStates ==
    UNION {{f \in [D -> UNION {ServerStates(s) : s \in D}] :
                \A s \in D : f[s] \in ServerStates(s)} : D \in SUBSET ServerIds}

InitSerialize ==
    /\ stateRef \in AggregateStates
    /\ configPath \in {Undefined, ConfigPath}
    /\ file = EmptyObject
    /\ unreachable = {}
    /\ servers = EmptyObject
    /\ op = Idle
    /\ task = [s \in ServerIds |-> "idle"]
    /\ onErrorCalls = [s \in ServerIds |-> 0]
    /\ onChangeCalls = 0
    /\ lastOnChange = EmptyObject
    /\ connectCalls = [s \in ServerIds |-> 0]
    /\ now \in {0, 1}
    /\ opsDone = 0
    /\ editsDone = 0
    /\ retryTask = "active"
    /\ sweeps = 0
    /\ lastSweep = NoSweep
    /\ closed = NotClosed
    /\ json = NoSnapshot

NextManager ==
    \/ EditFile
    \/ ConnectFromFile
    \/ ReloadConfig
    \/ FromJSON
    \/ RunQueue
    \/ \E s \in ServerIds : CreateSettles(s)
    \/ \E s \in ServerIds : NotifyStateChange(s)
    \/ \E s \in ServerIds : OnErrorHook(s)

ManagerIdle ==
    /\ file = EmptyObject
    /\ unreachable = {}
    /\ servers = EmptyObject
    /\ stateRef = EmptyObject
    /\ configPath = Undefined
    /\ op = Idle
    /\ task = [s \in ServerIds |-> "idle"]
    /\ onErrorCalls = [s \in ServerIds |-> 0]
    /\ onChangeCalls = 0
    /\ lastOnChange = EmptyObject
    /\ connectCalls = [s \in ServerIds |-> 0]
    /\ now = 0
    /\ opsDone = 0
    /\ editsDone = 0
    /\ retryTask = "active"
    /\ sweeps = 0
    /\ lastSweep = NoSweep
    /\ closed = NotClosed
    /\ json = NoSnapshot

\* ------------------------------------- File.fromJson in detail (part_003)
\* The manager's files above hold only entries that pass the schema and
\* have no placeholder. Here File.fromJson is applied to entries that may
\* fail the schema, name a type configToTransport does not know, or hold
\* placeholders. A string is the sequence of its pieces: a piece is a
\* placeholder "${...}" or text without one; "$$" and "$&" are the two
\* pieces of text that String.prototype.replace reads as patterns.
Placeholders ==
    {"${env:X}", "${userHome}", "${workspaceFolder}", "${workspaceFolderBasename}",
     "${pathSeparator}", "${/}", "${nope}"}

\* match[1]: the text between "${" and "}".
VariableOf(placeholder) ==
    CASE placeholder = "${env:X}" -> "env:X"
      [] placeholder = "${userHome}" -> "userHome"
      [] placeholder = "${workspaceFolder}" -> "workspaceFolder"
      [] placeholder = "${workspaceFolderBasename}" -> "workspaceFolderBasename"
      [] placeholder = "${pathSeparator}" -> "pathSeparator"
      [] placeholder = "${/}" -> "/"
      [] OTHER -> "nope"

\* variable.startsWith("env:") and variable.slice(4)
StartsWithEnv(variable) == variable \in {"env:X"}
EnvVarOf(variable) == "X"

\* os.homedir() and process.env
Homedir == <<"/home/u">>
ProcessEnv == [k \in {"X"} |-> <<"from-process">>]

\* JavaScript's truthiness of an optional string option.
Truthy(options, key) == Has(options, key) /\ options[key] /= <<>>

\* The replacement text String.prototype.replace inserts: "$$" stands for
\* "$" and "$&" for the matched text.
RECURSIVE GetSubstitution(_, _)
GetSubstitution(replacement, matched) ==
    IF replacement = <<>> THEN <<>>
    ELSE (IF Head(replacement) = "$$" THEN <<"$">>
          ELSE IF Head(replacement) = "$&" THEN <<matched>>
          ELSE <<Head(replacement)>>) \o GetSubstitution(Tail(replacement), matched)

\* result.replace(placeholder, text): the first occurrence only.
RECURSIVE FirstIndex(_, _, _)
FirstIndex(str, piece, i) ==
    IF i > Len(str) THEN 0
    ELSE IF str[i] = piece THEN i ELSE FirstIndex(str, piece, i + 1)

replace(str, placeholder, text) ==
    LET i == FirstIndex(str, placeholder, 1) IN
    IF i = 0 THEN str
    ELSE SubSeq(str, 1, i - 1) \o GetSubstitution(text, placeholder)
            \o SubSeq(str, i + 1, Len(str))

InterpolationError(variable) == [_tag |-> "InterpolationError", variable |-> variable]

\* interpolateValue's loop over the matches of the original value.
RECURSIVE interpolateMatches(_, _, _)
interpolateMatches(result, matches, options) ==
    IF matches = <<>> THEN [ok |-> TRUE, value |-> result]
    ELSE LET placeholder == Head(matches)
             variable == VariableOf(placeholder)
             env == IF Has(options, "env") THEN options.env ELSE ProcessEnv
         IN  IF StartsWithEnv(variable)
             THEN IF ~Has(env, EnvVarOf(variable))
                  THEN [ok |-> FALSE, error |-> InterpolationError(EnvVarOf(variable))]
                  ELSE interpolateMatches(replace(result, placeholder, env[EnvVarOf(variable)]),
                                          Tail(matches), options)
             ELSE IF variable = "userHome"
             THEN interpolateMatches(replace(result, placeholder, Homedir),
                                     Tail(matches), options)
             ELSE IF variable = "workspaceFolder"
             THEN IF ~Truthy(options, "workspaceFolder")
                  THEN [ok |-> FALSE, error |-> InterpolationError("workspaceFolder")]
                  ELSE interpolateMatches(replace(result, placeholder, options.workspaceFolder),
                                          Tail(matches), options)
             ELSE [ok |-> FALSE, error |-> InterpolationError(variable)]

interpolateValue(value, options) ==
    interpolateMatches(value, SelectSeq(value, LAMBDA piece : piece \in Placeholders),
                       options)

\* The string-valued places of the server objects drawn here, in the order
\* interpolate visits them; type and disabled hold no placeholder.
StringPlaces == <<"url", "command", "args", "headers">>

\* One place's string: args is an array of one string, headers an object
\* with one value.
PlaceString(cfg, place) ==
    IF place = "args" THEN cfg.args[1]
    ELSE IF place = "headers" THEN cfg.headers.Authorization
    ELSE cfg[place]
WithPlaceString(cfg, place, str) ==
    IF place = "args" THEN [cfg EXCEPT !.args = <<str>>]
    ELSE IF place = "headers" THEN [cfg EXCEPT !.headers = [Authorization |-> str]]
    ELSE [cfg EXCEPT ![place] = str]

\* interpolate on a parsed server object: Effect.all stops at the first
\* place that fails.
RECURSIVE interpolatePlaces(_, _, _)
interpolatePlaces(cfg, places, options) ==
    IF places = <<>> THEN [ok |-> TRUE, value |-> cfg]
    ELSE IF ~Has(cfg, Head(places)) THEN interpolatePlaces(cfg, Tail(places), options)
    ELSE LET r == interpolateValue(PlaceString(cfg, Head(places)), options) IN
         IF ~r.ok THEN r
         ELSE interpolatePlaces(WithPlaceString(cfg, Head(places), r.value),
                                Tail(places), options)

interpolate(cfg, options) == interpolatePlaces(cfg, StringPlaces, options)

\* z.url(): the string has to parse as an absolute URL as it stands, before
\* any interpolation; of the strings drawn here those do that begin with
\* scheme and host.
IsUrl(str) == str /= <<>> /\ str[1] = "https://example.com/"

\* A preprocess that takes every object without a type for a stdio server.
preprocessAsStdio(val) ==
    IF Has(val, "type") THEN val ELSE Merge(val, [type |-> "stdio"])

\* ServerConfigSchema's preprocess: an object without a type gets "http" for
\* a url and "stdio" for a command.
preprocess(val) ==
    IF Has(val, "type") THEN val
    ELSE IF Has(val, "url") THEN Merge(val, [type |-> "http"])
    ELSE IF Has(val, "command") THEN Merge(val, [type |-> "stdio"])
    ELSE val

\* z.object keeps the keys of its shape and fills in the defaults.
ObjectWith(val, keys, defaultType) ==
    Merge([disabled |-> FALSE, type |-> defaultType],
          [k \in DOMAIN val \cap keys |-> val[k]])

HttpServerConfigSchema(val) ==
    IF Has(val, "url") /\ IsUrl(val.url)
    THEN [success |-> TRUE,
          data |-> ObjectWith(val, {"disabled", "type", "url", "headers"}, "http")]
    ELSE [success |-> FALSE]

StdioServerConfigSchema(val) ==
    IF Has(val, "command")
    THEN [success |-> TRUE,
          data |-> ObjectWith(val, {"disabled", "type", "command", "args"}, "stdio")]
    ELSE [success |-> FALSE]

\* ServerConfigSchema.safeParse: the union takes the first schema that
\* accepts the preprocessed value.
safeParse(val) ==
    LET v == preprocess(val) IN
    IF HttpServerConfigSchema(v).success THEN HttpServerConfigSchema(v)
    ELSE StdioServerConfigSchema(v)

ValidationError(serverId) == [_tag |-> "ValidationError", serverId |-> serverId]

\* configToTransport with its Effect.die branches.
configToTransportOrDie(cfg) ==
    IF cfg.type \in {"http", "sse"}
    THEN IF ~Has(cfg, "url") THEN [ok |-> FALSE, error |-> [_tag |-> "Die"]]
         ELSE [ok |-> TRUE,
               transportConfig |->
                   Merge([url |-> cfg.url],
                         [k \in DOMAIN cfg \cap {"headers"} |-> cfg[k]]),
               transportType |-> cfg.type]
    ELSE IF cfg.type = "stdio"
    THEN IF ~Has(cfg, "command") THEN [ok |-> FALSE, error |-> [_tag |-> "Die"]]
         ELSE [ok |-> TRUE,
               transportConfig |->
                   Merge([command |-> cfg.command],
                         [k \in DOMAIN cfg \cap {"args"} |-> cfg[k]]),
               transportType |-> "stdio"]
    ELSE [ok |-> FALSE, error |-> [_tag |-> "Die"]]

\* A test that drops every disabled server.
skipsEveryDisabled(parsedConfig, options) == parsedConfig.disabled

\* File.fromJson's test for a server to leave out.
skipsDisabled(parsedConfig, options) ==
    parsedConfig.disabled /\ ~(Has(options, "includeDisabled") /\ options.includeDisabled)

\* The body of File.fromJson's loop for one server: "skip" for a disabled
\* server that is not asked for.
parseServer(serverId, serverConfig, options) ==
    LET result == safeParse(serverConfig) IN
    IF ~result.success THEN [ok |-> FALSE, error |-> ValidationError(serverId)]
    ELSE IF skipsDisabled(result.data, options)
    THEN [ok |-> TRUE, skip |-> TRUE]
    ELSE LET interpolated == interpolate(result.data, options) IN
         IF ~interpolated.ok THEN interpolated
         ELSE LET t == configToTransportOrDie(interpolated.value) IN
              IF ~t.ok THEN t
              ELSE [ok |-> TRUE, skip |-> FALSE,
                    params |-> [transportConfig |-> t.transportConfig,
                                _metadata |-> [version |-> "0.0.1",
                                               rawConfig |-> serverConfig,
                                               serverName |-> serverId,
                                               transportType |-> t.transportType,
                                               disabled |-> result.data.disabled]]]

\* File.fromJson's loop over Object.entries(mcpServers): the first failure
\* ends the parse.
RECURSIVE parseServers(_, _, _, _)
parseServers(ids, mcpServers, options, params) ==
    IF ids = <<>> THEN [ok |-> TRUE, params |-> params]
    ELSE LET r == parseServer(Head(ids), mcpServers[Head(ids)], options) IN
         IF ~r.ok THEN [ok |-> FALSE, error |-> r.error]
         ELSE parseServers(Tail(ids), mcpServers, options,
                  IF r.skip THEN params ELSE Put(params, Head(ids), r.params))

\* File.fromJson(json, options): json.mcpServers is given by its typeof
\* ("undefined" when the field is missing) and, for an object, its entries.
FileFromJson(jsonObject, options) ==
    IF jsonObject.mcpServers.typeof /= "object"
    THEN [ok |-> FALSE, error |-> ValidationError("<root>")]
    ELSE parseServers(InOrder(DOMAIN jsonObject.mcpServers.entries), jsonObject.mcpServers.entries,
                      options, EmptyObject)

\* ---- the inputs File.fromJson is applied to
Url == <<"https://example.com/", "mcp">>

\* The server objects a file may declare for a server.
ServerObjects ==
    {[url |-> Url],
     [url |-> Url, disabled |-> TRUE],
     [type |-> "sse", url |-> Url],
     [url |-> Url, headers |-> [Authorization |-> <<"Bearer ", "${env:X}">>]],
     [command |-> <<"python">>],
     [command |-> <<"python">>, args |-> << <<"${env:X}">> >>],
     [command |-> <<"python">>, args |-> << <<"${env:X}", ":", "${env:X}">> >>],
     [command |-> <<"python">>, args |-> << <<"${env:X}">> >>, disabled |-> TRUE],
     [command |-> <<"${userHome}", "/server.py">>],
     [command |-> <<"${workspaceFolder}", "/server.py">>],
     [command |-> <<"${workspaceFolderBasename}">>],
     [command |-> <<"python">>, args |-> << <<"a", "${pathSeparator}", "b">> >>],
     [command |-> <<"python">>, args |-> << <<"a", "${/}", "b">> >>],
     [command |-> <<"python">>, args |-> << <<"${nope}">> >>],
     [disabled |-> FALSE],
     [url |-> <<"${env:X}", "/mcp">>],
     [type |-> "websocket", url |-> Url]}

\* The values of the environment variable X, when it is set.
EnvValues == {<<"server.py">>, <<"pa", "$$", "word">>, <<"$&">>}

ParseOptionsChoices ==
    {Merge(Merge(a, b), c) :
        a \in {EmptyObject, [includeDisabled |-> TRUE]},
        b \in {EmptyObject, [workspaceFolder |-> <<"/my/project">>]},
        c \in {EmptyObject, [env |-> EmptyObject]}
               \cup {[env |-> [k \in {"X"} |-> v]] : v \in EnvValues}}

JsonChoices ==
    {[mcpServers |-> [typeof |-> "undefined"]], [mcpServers |-> [typeof |-> "string"]]}
    \cup {[mcpServers |-> [typeof |-> "object", entries |-> m]] :
             m \in UNION {[D -> ServerObjects] :
                             D \in {E \in SUBSET ServerIds : Cardinality(E) <= MaxDeclared}}}

InitParse ==
    /\ parseInput \in [json : JsonChoices, options : ParseOptionsChoices]
    /\ parseResult = NotParsed

\* File.fromJson is called on the input.
ParseJson ==
    /\ UNCHANGED notParseVars
    /\ parseResult = NotParsed
    /\ parseResult' = FileFromJson(parseInput.json, parseInput.options)
    /\ UNCHANGED parseInput

\* ------------------------------------------------------- specifications
Init == InitManager /\ ClientIdle /\ BackoffIdle /\ ParseIdle
Next == NextManager
Spec == Init /\ [][Next]_vars

\* Restores only: ClientManager.fromJSON is static and builds a new manager,
\* so what it does depends on the snapshot and the file alone.
NextRestore ==
    \/ EditFile
    \/ FromJSON
    \/ RunQueue
    \/ \E s \in ServerIds : CreateSettles(s)
    \/ \E s \in ServerIds : NotifyStateChange(s)
    \/ \E s \in ServerIds : OnErrorHook(s)
SpecRestore == Init /\ [][NextRestore]_vars

\* The bulk connect on its own.
NextBulk ==
    \/ ConnectFromFile
    \/ \E s \in ServerIds : CreateSettles(s)
    \/ \E s \in ServerIds : NotifyStateChange(s)
    \/ \E s \in ServerIds : OnErrorHook(s)
SpecBulk == Init /\ [][NextBulk]_vars

\* The bulk connect with the failed-server sweep and close().
NextClose ==
    \/ ConnectFromFile
    \/ Close
    \/ SweepFires
    \/ \E s \in ServerIds : CreateSettles(s)
    \/ \E s \in ServerIds : NotifyStateChange(s)
    \/ \E s \in ServerIds : OnErrorHook(s)
SpecClose == Init /\ [][NextClose]_vars

\* The bulk connect with a close() that may come before it has resolved.
NextCloseRace ==
    \/ ConnectFromFile
    \/ Close
    \/ CloseWhileConnecting
    \/ \E s \in ServerIds : CreateSettles(s)
    \/ \E s \in ServerIds : NotifyStateChange(s)
    \/ \E s \in ServerIds : OnErrorHook(s)
SpecCloseRace == Init /\ [][NextCloseRace]_vars

\* connectFromFile with a path that has a file and with one that has none,
\* followed by reloadConfig.
NextLoadFailure ==
    \/ ConnectFromFile
    \/ ConnectFromMissingFile
    \/ ReloadConfig
    \/ RunQueue
    \/ \E s \in ServerIds : CreateSettles(s)
    \/ \E s \in ServerIds : NotifyStateChange(s)
    \/ \E s \in ServerIds : OnErrorHook(s)
SpecLoadFailure == Init /\ [][NextLoadFailure]_vars

\* connectFromFile and reloadConfig on a file that does not change.
NextReload ==
    \/ ConnectFromFile
    \/ ReloadConfig
    \/ RunQueue
    \/ \E s \in ServerIds : CreateSettles(s)
    \/ \E s \in ServerIds : NotifyStateChange(s)
    \/ \E s \in ServerIds : OnErrorHook(s)
SpecReload == Init /\ [][NextReload]_vars

\* toJSON applied to aggregate states of the ServerState type.
InitSerializeSpec == InitSerialize /\ ClientIdle /\ BackoffIdle /\ ParseIdle
SpecSerialize == InitSerializeSpec /\ [][ToJSON]_vars

InitClientSpec == InitClient /\ BackoffIdle /\ ManagerIdle /\ ParseIdle
SpecClient == InitClientSpec /\ [][NextClient]_vars

\* The connection with its scheduling: a handshake that was started settles
\* (mcpClient.connect resolves or rejects) and a backoff timer that was set
\* fires. Whether the transport closes, and whether the caller disconnects,
\* is left to the environment.
NextClientLive ==
    \/ CreateClient
    \/ HandshakeSucceeds
    \/ HandshakeFails
    \/ TransportCloses
    \/ BackoffElapses
    \/ Disconnect
SpecClientLive ==
    /\ InitClientSpec
    /\ [][NextClientLive]_vars
    /\ WF_vars(HandshakeSucceeds \/ HandshakeFails)
    /\ WF_vars(BackoffElapses)

\* The point operations of a created client, on structured names.
InitPieceClientSpec == InitPieceClient /\ BackoffIdle /\ ManagerIdle /\ ParseIdle
SpecPieceClient == InitPieceClientSpec /\ [][NextPieceClient]_vars

InitBackoffSpec == InitBackoff /\ ClientIdle /\ ManagerIdle /\ ParseIdle
SpecBackoff == InitBackoffSpec /\ [][NextBackoff]_vars

\* File.fromJson applied to one input.
InitParseSpec == InitParse /\ ClientIdle /\ BackoffIdle /\ ManagerIdle
SpecParse == InitParseSpec /\ [][ParseJson]_vars

\* ----------------------------------------------------------------- claims
\* No handshake is in flight and no handleDisconnect fiber is waiting: the
\* connection does nothing more unless the transport or the caller acts.
AtRest == inFlight = 0 /\ sleeping = 0

\* C2: once explicit disconnect has been requested the state stays
\* "disconnected": a reconnect that was pending when disconnect was called
\* does not call connect.
C2_StaysDisconnected == scopeClosed => connectionState = "disconnected"

\* C3: a connection whose reconnect attempts have failed as often as the
\* configured maximum allows ends in "failed", not in "reconnecting" or
\* "connecting".
C3_EndsFailed ==
    (/\ createStatus = "resolved"
     /\ maxAttempts >= 1
     /\ failedReconnects >= maxAttempts
     /\ AtRest
     /\ ~scopeClosed) => connectionState = "failed"

\* C4: the reconnect-attempt counter is between 0 and maxReconnectAttempts
\* inclusive in every reachable state.
C4_CounterInRange == reconnectAttempts >= 0 /\ reconnectAttempts <= maxAttempts

\* C4 witness: the counter has reached the maximum and the next close
\* notification has given up.
C4_AtLimit ==
    /\ maxAttempts >= 1
    /\ reconnectAttempts = maxAttempts
    /\ connectionState = "failed"

ExpectedDelays == <<1000, 2000, 4000, 8000, 16000, 30000, 30000>>

\* C5: the delay before reconnect attempt n is
\* min(initialDelay * 2^(n-1), maxDelay); with the defaults attempts 1..7
\* wait 1000, 2000, 4000, 8000, 16000, 30000, 30000 ms.
C5_BackoffDelay ==
    bAttempt >= 1 =>
        LET initialDelay == IF bInitial = NoNumber THEN 1000 ELSE bInitial
            maxDelay == IF bMaxDelay = NoNumber THEN 30000 ELSE bMaxDelay
            uncapped == initialDelay * (2 ^ (bAttempt - 1))
        IN  /\ bDelay = (IF uncapped < maxDelay THEN uncapped ELSE maxDelay)
            /\ (bInitial = NoNumber /\ bMaxDelay = NoNumber /\ bAttempt <= 7)
                   => bDelay = ExpectedDelays[bAttempt]

\* C5 witness: the seventh attempt under the defaults waits the capped delay.
C5_SeventhAttemptCapped ==
    /\ bInitial = NoNumber
    /\ bMaxDelay = NoNumber
    /\ bAttempt = 7
    /\ bDelay = 30000

\* The operation `name` has run to its end.
Finished(name) == op.name = name /\ op.phase = "done"

\* The transport kind File.fromJson recorded for a parsed server.
Kind(s) == op.params[s]._metadata.transportType

\* C1: in a bulk connect of several servers in which exactly one server is
\* unreachable, every other server ends "connected", the unreachable one
\* ends "failed" with a recorded error, and onError is called once for the
\* unreachable server and never for another.
C1_OnlyTheFailingServerFails ==
    (/\ Finished("connectFromFile")
     /\ Cardinality(DOMAIN op.params) >= 2
     /\ Cardinality(unreachable) = 1
     /\ unreachable \subseteq DOMAIN op.params)
    => \A s \in DOMAIN op.params :
          /\ Has(stateRef, s)
          /\ IF s \in unreachable
             THEN /\ stateRef[s].connectionState = "failed"
                  /\ Has(stateRef[s], "error")
                  /\ onErrorCalls[s] = 1
             ELSE /\ stateRef[s].connectionState = "connected"
                  /\ onErrorCalls[s] = 0

\* C6: fromJSON never calls connectToServer for an http server that is in
\* the snapshot, whatever its wasConnected flag.
C6_HttpInSnapshotNotConnected ==
    op.name = "fromJSON" =>
        \A s \in DOMAIN op.params \cap DOMAIN op.snapshot.servers :
            Kind(s) = "http" => connectCalls[s] = 0 /\ task[s] = "idle"

\* C6 witness: a restore has finished whose snapshot marks the declared http
\* server as previously connected, and which has connected another server.
C6_RestoredWithConnectedHttp ==
    /\ Finished("fromJSON")
    /\ Has(op.params, "s1")
    /\ Kind("s1") = "http"
    /\ Has(op.snapshot.servers, "s1")
    /\ op.snapshot.servers["s1"].wasConnected
    /\ \E x \in ServerIds : connectCalls[x] >= 1

\* C7: fromJSON connects a declared server exactly when it is absent from
\* the snapshot, or its transport is sse or stdio and the snapshot's
\* wasConnected flag is true.
C7_ConnectsExactlyWhen ==
    Finished("fromJSON") =>
        \A s \in DOMAIN op.params :
            connectCalls[s] >= 1 <=>
                \/ ~Has(op.snapshot.servers, s)
                \/ /\ Kind(s) \in {"sse", "stdio"}
                   /\ op.snapshot.servers[s].wasConnected

\* A restore has finished from a snapshot that lists the stdio server s2 as
\* connected and also lists the http server s1, against a config that
\* declares both.
RestoredStdioAndHttp ==
    /\ Finished("fromJSON")
    /\ {"s1", "s2"} \subseteq DOMAIN op.params
    /\ {"s1", "s2"} \subseteq DOMAIN op.snapshot.servers
    /\ op.snapshot.servers["s2"].connectionState = "connected"

\* C8 as stated: after restoring from the snapshot of a manager with one
\* connected stdio and one connected http server, the http server is
\* connected fresh in the restored manager.
C8_HttpConnectedFresh ==
    (RestoredStdioAndHttp /\ op.snapshot.servers["s1"].connectionState = "connected")
    => connectCalls["s1"] >= 1

\* C8 amended: after such a restore the http server is not connected at
\* all: no connect attempt is made for it and it has neither a registry
\* entry nor an aggregate-state entry, whatever its wasConnected flag.
C8_HttpNotRestored ==
    RestoredStdioAndHttp =>
        /\ connectCalls["s1"] = 0
        /\ ~Has(servers, "s1")
        /\ ~Has(stateRef, "s1")

\* C8 witness: such a restore has finished, with the http server's
\* wasConnected flag true in the snapshot.
C8_RestoredFlagTrue ==
    RestoredStdioAndHttp /\ op.snapshot.servers["s1"].wasConnected

\* C10: reloadConfig leaves a server whose descriptor is the same in the
\* re-parsed file untouched: no connect call is made for it and its
\* aggregate-state and registry entries are what they were before.
C10_UnchangedUntouched ==
    Finished("reloadConfig") =>
        \A s \in DOMAIN op.params \cap DOMAIN op.before.params :
            op.params[s] = op.before.params[s] =>
                /\ connectCalls[s] = 0
                /\ Get(stateRef, s) = Get(op.before.states, s)
                /\ ~Has(servers, s)

\* C11: after reloadConfig has resolved, every server the manager knew that
\* the file no longer declares is gone from the registry and from the
\* aggregate state.
C11_RemovedServersGone ==
    Finished("reloadConfig") =>
        \A s \in (DOMAIN op.before.states \cup DOMAIN op.before.servers) \ op.declared :
            ~Has(stateRef, s) /\ ~Has(servers, s)

\* C12: a bulk connect that is running always has a connectToServer call
\* left to finish, and once connectFromFile has resolved every parsed
\* server has an aggregate-state entry that is "connected" or "failed".
C12_EveryServerSettled ==
    /\ (op.name = "connectFromFile" /\ op.phase = "running")
          => \E s \in DOMAIN op.params : task[s] \notin {"idle", "done"}
    /\ Finished("connectFromFile")
          => \A s \in DOMAIN op.params :
                /\ Has(stateRef, s)
                /\ stateRef[s].connectionState \in {"connected", "failed"}

\* C12 witness: a bulk connect of several servers, one of them unreachable,
\* has resolved.
C12_BulkResolvedWithFailure ==
    /\ Finished("connectFromFile")
    /\ Cardinality(DOMAIN op.params) >= 2
    /\ unreachable /= {}
    /\ unreachable \subseteq DOMAIN op.params
    /\ \A s \in unreachable : stateRef[s].connectionState = "failed"

\* C13: a capability operation issued in any state but "connected" fails
\* with NotConnectedError and sends no request, whatever the name.
C13_NotConnectedError ==
    (lastCall.op /= "none" /\ lastCall.state /= "connected")
    => lastCall.outcome = "NotConnectedError" /\ ~lastCall.forwarded

\* C13 witness: a point operation was issued while reconnecting, for a name
\* the allowed list does not have.
C13_CalledWhileReconnecting ==
    /\ lastCall.op = "callTool"
    /\ lastCall.state = "reconnecting"
    /\ Has(config.server._metadata, "allowed")
    /\ Has(config.server._metadata.allowed, "tools")
    /\ lastCall.name \notin config.server._metadata.allowed["tools"]
    /\ lastCall.outcome = "NotConnectedError"

\* The allowed list configured for the kind of the last operation, if any.
ListConfigured ==
    /\ Has(config.server._metadata, "allowed")
    /\ Has(config.server._metadata.allowed, KindOfOp(lastCall.op))
ConfiguredList == config.server._metadata.allowed[KindOfOp(lastCall.op)]

\* C14: while connected, a point operation for a name that is not in the
\* list configured for its kind fails with FilteredError carrying the kind
\* and the name and sends no request; for a name in the list the request is
\* sent.
C14_PointOperationFiltered ==
    (lastCall.op \in PointOps /\ lastCall.state = "connected" /\ ListConfigured)
    => IF lastCall.name \in ConfiguredList
       THEN lastCall.forwarded /\ lastCall.outcome \in {"ok", "ConnectionError"}
       ELSE /\ lastCall.outcome = "FilteredError"
            /\ lastCall.errorType = FilteredType(lastCall.op)
            /\ lastCall.errorName = lastCall.name
            /\ ~lastCall.forwarded

\* C14 witness: callTool for a name that only another kind's list has was
\* refused.
C14_RefusedToolOfOtherKind ==
    /\ lastCall.op = "callTool"
    /\ lastCall.state = "connected"
    /\ ListConfigured
    /\ lastCall.name \notin ConfiguredList
    /\ Has(config.server._metadata.allowed, "prompts")
    /\ lastCall.name \in config.server._metadata.allowed["prompts"]
    /\ lastCall.outcome = "FilteredError"

\* C15 as stated: with a list configured for the kind, the list operation
\* returns exactly the advertised items whose name is in the list.
C15_ListedByName ==
    (lastCall.op \in ListOps /\ lastCall.outcome = "ok" /\ ListConfigured)
    => lastCall.result = {i \in lastCall.advertised : i.name \in ConfiguredList}

\* C15 amended: it returns exactly the advertised items whose identifier is
\* in the list: the name of a tool or a prompt, the uri of a resource.
C15_ListedByIdentifier ==
    (lastCall.op \in ListOps /\ lastCall.outcome = "ok" /\ ListConfigured)
    => lastCall.result =
          {i \in lastCall.advertised :
              (IF lastCall.op = "listResources" THEN i.uri ELSE i.name) \in ConfiguredList}

\* C15 witness: listTools with allowed.tools = ["a"] and an upstream that
\* advertises a and b returned only a.
C15_ListedOnlyA ==
    /\ lastCall.op = "listTools"
    /\ lastCall.outcome = "ok"
    /\ ListConfigured
    /\ ConfiguredList = {"a"}
    /\ lastCall.advertised = {[name |-> "a"], [name |-> "b"]}
    /\ lastCall.result = {[name |-> "a"]}

\* C16: a capability operation that fails with FilteredError changes
\* neither the connection state nor the reconnect-attempt counter.
C16_FilteredErrorChangesNothing ==
    [][(lastCall' /= lastCall /\ lastCall'.outcome = "FilteredError")
          => (connectionState' = connectionState
              /\ reconnectAttempts' = reconnectAttempts)]_vars

\* C16 witness: readResource has been refused on a connected client.
C16_RefusedResource ==
    /\ lastCall.op = "readResource"
    /\ lastCall.outcome = "FilteredError"
    /\ connectionState = "connected"

\* C17: toJSON has exactly one entry per server of the aggregate state, with
\* its connectionState, sessionId, reconnectAttempts, lastConnectedAt and
\* error copied, wasConnected true exactly for a server that is connected
\* or has a lastConnectedAt, and with the config path and a timestamp.
C17_SnapshotOfAggregateState ==
    json /= NoSnapshot =>
        /\ DOMAIN json.servers = DOMAIN stateRef
        /\ \A s \in DOMAIN stateRef :
              /\ json.servers[s].serverId = s
              /\ json.servers[s].connectionState = stateRef[s].connectionState
              /\ json.servers[s].reconnectAttempts = stateRef[s].reconnectAttempts
              /\ \A k \in {"sessionId", "lastConnectedAt", "error"} :
                    IF Has(stateRef[s], k)
                    THEN Has(json.servers[s], k) /\ json.servers[s][k] = stateRef[s][k]
                    ELSE ~Has(json.servers[s], k)
              /\ json.servers[s].wasConnected
                    <=> (\/ stateRef[s].connectionState = "connected"
                         \/ Has(stateRef[s], "lastConnectedAt"))
        /\ json.timestamp = now
        /\ IF configPath = Undefined THEN ~Has(json, "configPath")
           ELSE json.configPath = configPath

\* C17 witness: a snapshot was taken of a manager with a server that is
\* failed now but was connected once, and one that never connected.
C17_SnapshotWithBothFlags ==
    /\ json /= NoSnapshot
    /\ configPath = ConfigPath
    /\ \E s, t \in DOMAIN stateRef :
          /\ stateRef[s].connectionState = "failed"
          /\ json.servers[s].wasConnected
          /\ ~json.servers[t].wasConnected

\* C18: every update of the aggregate state is followed by one onChange
\* call, made after the update, whose argument is the aggregate state as it
\* is at the call, with every known server in it.
C18_OnChangeAfterEachMutation ==
    /\ [](\A s \in ServerIds : task[s] \in {"notify", "notifyError"} => Has(stateRef, s))
    /\ [][\A s \in ServerIds :
             (task[s] \in {"notify", "notifyError"} /\ task'[s] /= task[s])
                => (onChangeCalls' = onChangeCalls + 1 /\ stateRef' = stateRef)]_vars
    /\ [][onChangeCalls' > onChangeCalls
             => \/ op'.name = "close"
                \/ (onChangeCalls' = onChangeCalls + 1 /\ lastOnChange' = stateRef')]_vars
    /\ [][stateRef' /= stateRef
             => \/ op' /= op /\ op'.name \in {"fromJSON", "close"}
                \/ onChangeCalls' = onChangeCalls + 1
                \/ \E s \in ServerIds :
                      task[s] = "create" /\ task'[s] \in {"notify", "notifyError"}]_vars

\* C18 witness: onChange has been called for the second failure of a bulk
\* connect, with both servers in its argument.
C18_SecondNotification ==
    /\ op.name = "connectFromFile"
    /\ onChangeCalls = 2
    /\ Cardinality(DOMAIN lastOnChange) = 2
    /\ lastOnChange = stateRef

\* C19: reloadConfig on a manager without a remembered config path throws
\* ManagerError and changes neither the registry nor the aggregate state.
C19_ReloadWithoutPathRejected ==
    [][(op' /= op /\ op'.name = "reloadConfig" /\ op.phase /= "running"
          /\ configPath = Undefined)
          => (/\ op'.phase = "rejected"
              /\ op'.error = "ManagerError"
              /\ servers' = servers
              /\ stateRef' = stateRef
              /\ configPath' = configPath)]_vars

\* C19 witness: reloadConfig has thrown ManagerError.
C19_ReloadRejected ==
    /\ op.name = "reloadConfig"
    /\ op.phase = "rejected"
    /\ op.error = "ManagerError"
    /\ configPath = Undefined

\* C20: close() cancels the sweep, which then never fires again, runs
\* disconnectServer for every registered connection, and leaves the
\* registry empty.
C20_CloseCancelsAndEmpties ==
    /\ [](Finished("close") => retryTask = "cancelled" /\ DOMAIN servers = {})
    /\ [][retryTask = "cancelled"
             => \/ sweeps' = sweeps /\ retryTask' = "cancelled"
                \/ op' /= op /\ op'.name = "fromJSON"]_vars
    /\ [][(op' /= op /\ op'.name = "close")
             => (/\ DOMAIN servers' = {}
                 /\ DOMAIN stateRef' = DOMAIN stateRef \ DOMAIN servers)]_vars

\* C20 witness: a manager that has failed servers and whose sweep has fired
\* has been closed.
C20_ClosedAfterSweep ==
    /\ Finished("close")
    /\ sweeps >= 1
    /\ DOMAIN stateRef /= {}
    /\ retryTask = "cancelled"

\* C21: every sweep that fires while the manager is open makes a connect
\* attempt for each server whose aggregate state is `failed`.
C21_SweepRetriesFailed == lastSweep.failed \subseteq lastSweep.retried

\* C22: when ManagedClient.create resolves the connection's state is
\* `connected`, and when the handshake fails it rejects with a
\* ConnectionError whose cause is the error the handshake failed with.
C22_CreateResolvesConnected ==
    /\ [][(createStatus' = "resolved" /\ createStatus /= "resolved")
             => connectionState' = "connected"]_vars
    /\ [](createStatus = "rejected"
             => (/\ createError.rejection \in SdkErrors
                 /\ createError.error._tag = "ConnectionError"
                 /\ createError.error.cause = createError.rejection))

\* C22 witness: create was rejected because the endpoint refused the
\* connection.
C22_CreateRejected ==
    /\ createStatus = "rejected"
    /\ createError.rejection = "ECONNREFUSED"
    /\ createError.error.cause = "ECONNREFUSED"

C29_FailedIsTerminal ==
    /\ [](connectionState = "failed" => inFlight = 0 /\ sleeping = 0)
    /\ [][connectionState = "failed"
             => \/ connectionState' = "failed"
                \/ (connectionState' = "disconnected" /\ scopeClosed' /\ ~scopeClosed)]_vars

\* C29 witness: a connection has given up after its reconnect attempts.
C29_GaveUp ==
    /\ connectionState = "failed"
    /\ reconnectAttempts >= 1
    /\ reconnectAttempts = maxAttempts

\* C30: the close notification that disconnect() causes finds
\* `disconnected`: the state stays `disconnected`, the counter keeps its
\* value and no backoff task is started.
C30_CloseWhileDisconnected ==
    [][(scopeClosed' /\ ~scopeClosed)
          => (/\ connectionState' = "disconnected"
              /\ reconnectAttempts' = reconnectAttempts
              /\ sleeping' = sleeping
              /\ lastDelay' = lastDelay)]_vars

\* C30 witness: a connection that was reconnecting has been disconnected
\* and keeps its counter.
C30_DisconnectedWhileReconnecting ==
    /\ scopeClosed
    /\ connectionState = "disconnected"
    /\ reconnectAttempts >= 1

\* File.fromJson has been called, and what it was called with.
Parsed == ~(~parseResult.ok /\ parseResult.error._tag = "NotParsed")
DeclaredIsObject == parseInput.json.mcpServers.typeof = "object"
Declared == parseInput.json.mcpServers.entries
IncludeDisabled ==
    Has(parseInput.options, "includeDisabled") /\ parseInput.options.includeDisabled
DeclaredDisabled(s) == Has(Declared[s], "disabled") /\ Declared[s].disabled

\* C23: a parse that succeeds returns, under default options, exactly the
\* declared servers that are not disabled, and with includeDisabled every
\* declared server, the disabled ones with disabled = true in their
\* metadata.
C23_DisabledDropped ==
    (Parsed /\ parseResult.ok) =>
        /\ DOMAIN parseResult.params =
              IF IncludeDisabled THEN DOMAIN Declared
              ELSE {s \in DOMAIN Declared : ~DeclaredDisabled(s)}
        /\ \A s \in DOMAIN parseResult.params :
              parseResult.params[s]._metadata.disabled = DeclaredDisabled(s)

\* C23 witness: a file of two servers, one of them disabled, has been
\* parsed with includeDisabled.
C23_BothWithIncludeDisabled ==
    /\ Parsed /\ parseResult.ok
    /\ IncludeDisabled
    /\ Cardinality(DOMAIN Declared) = 2
    /\ Cardinality({s \in DOMAIN Declared : DeclaredDisabled(s)}) = 1
    /\ DOMAIN parseResult.params = DOMAIN Declared
    /\ \E s \in DOMAIN Declared : parseResult.params[s]._metadata.disabled

\* C24: when one entry of a file fails the schema and the other entries
\* are fine, the parse succeeds and returns the other entries.
C24_InvalidEntryExcludedAlone ==
    (/\ Parsed
     /\ DeclaredIsObject
     /\ \E s \in DOMAIN Declared : ~safeParse(Declared[s]).success
     /\ \E s \in DOMAIN Declared : safeParse(Declared[s]).success
     /\ \A s \in DOMAIN Declared :
           safeParse(Declared[s]).success
              => parseServer(s, Declared[s], parseInput.options).ok)
    => /\ parseResult.ok
       /\ \A s \in DOMAIN Declared :
             (/\ safeParse(Declared[s]).success
              /\ ~parseServer(s, Declared[s], parseInput.options).skip)
                => s \in DOMAIN parseResult.params

\* The string a config string becomes when every placeholder is replaced
\* by the literal value it stands for.
RECURSIVE Substituted(_, _)
Substituted(str, options) ==
    IF str = <<>> THEN <<>>
    ELSE (IF Head(str) = "${env:X}"
             THEN (IF Has(options, "env") THEN options.env ELSE ProcessEnv)["X"]
          ELSE IF Head(str) = "${userHome}" THEN Homedir
          ELSE IF Head(str) = "${workspaceFolder}" THEN options.workspaceFolder
          ELSE <<Head(str)>>) \o Substituted(Tail(str), options)

\* The placeholders of a declared server's strings.
PlaceholdersOf(cfg) ==
    UNION {{PlaceString(cfg, StringPlaces[i])[j] :
                j \in 1 .. Len(PlaceString(cfg, StringPlaces[i]))}
           : i \in {k \in 1 .. Len(StringPlaces) : Has(cfg, StringPlaces[k])}}
       \cap Placeholders

\* A placeholder that cannot be resolved with the options given.
Unresolvable(placeholder, options) ==
    \/ placeholder = "${env:X}"
          /\ ~Has(IF Has(options, "env") THEN options.env ELSE ProcessEnv, "X")
    \/ placeholder = "${workspaceFolder}" /\ ~Has(options, "workspaceFolder")
    \/ placeholder = "${nope}"

\* C25: a file whose entries all pass the schema fails with
\* InterpolationError when an enabled server has a placeholder that
\* cannot be resolved, and otherwise every string of a returned descriptor
\* is the declared string with each placeholder replaced by its literal
\* value.
C25_InterpolationErrorOrLiteral ==
    (/\ Parsed
     /\ DeclaredIsObject
     /\ \A s \in DOMAIN Declared :
           /\ safeParse(Declared[s]).success
           /\ Get(Declared[s], "type") /= "websocket"
           /\ PlaceholdersOf(Declared[s])
                 \subseteq {"${env:X}", "${userHome}", "${workspaceFolder}", "${nope}"})
    => IF \E s \in DOMAIN Declared :
             /\ ~DeclaredDisabled(s)
             /\ \E p \in PlaceholdersOf(Declared[s]) : Unresolvable(p, parseInput.options)
       THEN ~parseResult.ok /\ parseResult.error._tag = "InterpolationError"
       ELSE parseResult.ok =>
              \A s \in DOMAIN parseResult.params :
                 \A i \in {k \in 1 .. Len(StringPlaces) : Has(Declared[s], StringPlaces[k])} :
                    LET place == StringPlaces[i]
                        t == parseResult.params[s].transportConfig
                    IN  PlaceString(t, place)
                           = Substituted(PlaceString(Declared[s], place), parseInput.options)

\* C26: a file of one server whose only placeholder is
\* ${workspaceFolderBasename}, ${pathSeparator} or ${/} parses
\* successfully, and the placeholder is gone from the descriptor's strings.
C26_BasenameAndSeparatorSupported ==
    (/\ Parsed
     /\ DeclaredIsObject
     /\ Cardinality(DOMAIN Declared) = 1
     /\ \A s \in DOMAIN Declared :
           /\ safeParse(Declared[s]).success
           /\ PlaceholdersOf(Declared[s]) /= {}
           /\ PlaceholdersOf(Declared[s])
                 \subseteq {"${workspaceFolderBasename}", "${pathSeparator}", "${/}"})
    => /\ parseResult.ok
       /\ \A s \in DOMAIN parseResult.params :
             PlaceholdersOf(parseResult.params[s].transportConfig) = {}

\* The server objects without placeholder, and the kind each is to get.
PlainObjects ==
    {[url |-> Url], [url |-> Url, disabled |-> TRUE], [type |-> "sse", url |-> Url],
     [command |-> <<"python">>]}
ExpectedKind(cfg) ==
    IF Has(cfg, "type") THEN cfg.type
    ELSE IF Has(cfg, "url") THEN "http"
    ELSE "stdio"

\* C27: every returned descriptor has kind http, sse or stdio in its
\* metadata; a file of entries without placeholder parses, and in it an
\* entry without type gets http for a url and stdio for a command, and an
\* entry with type sse and a url gets sse.
C27_KindInferred ==
    /\ (Parsed /\ parseResult.ok)
          => \A s \in DOMAIN parseResult.params :
                parseResult.params[s]._metadata.transportType \in {"http", "sse", "stdio"}
    /\ (Parsed /\ DeclaredIsObject /\ \A s \in DOMAIN Declared : Declared[s] \in PlainObjects)
          => /\ parseResult.ok
             /\ \A s \in DOMAIN parseResult.params :
                   parseResult.params[s]._metadata.transportType = ExpectedKind(Declared[s])

\* C27 witness: a file that declares one server by url and one by command,
\* neither with a type, has been parsed.
C27_UrlAndCommandParsed ==
    /\ Parsed /\ parseResult.ok
    /\ \E s, t \in DOMAIN parseResult.params :
          /\ Declared[s] = [url |-> Url]
          /\ Declared[t] = [command |-> <<"python">>]
          /\ parseResult.params[s]._metadata.transportType = "http"
          /\ parseResult.params[t]._metadata.transportType = "stdio"

\* C31: a connect attempt that succeeds, the first or a reconnect, leaves
\* "connected" in the state and 0 in the attempt counter; an open transport
\* therefore always has the counter at 0, and when it closes unexpectedly
\* (the limit allowing a reconnect) the next attempt is attempt 1 with the
\* initial delay.
C31_SuccessResetsCounter ==
    /\ [][(inFlight' < inFlight /\ transport' = "open")
            => (connectionState' = "connected" /\ reconnectAttempts' = 0)]_vars
    /\ [](transport = "open" => reconnectAttempts = 0)
    /\ [][(/\ transport = "open"
           /\ transport' = "closed"
           /\ scopeClosed' = scopeClosed
           /\ connectionState = "connected"
           /\ maxAttempts >= 1)
            => (/\ connectionState' = "reconnecting"
                /\ reconnectAttempts' = 1
                /\ lastDelay' = Min(OrDefault(config.initialReconnectDelay,
                                              DefaultInitialReconnectDelay),
                                    OrDefault(config.maxReconnectDelay,
                                              DefaultMaxReconnectDelay)))]_vars

\* The second reconnect of a created client succeeded: the connection is back
\* in "connected" after a backoff of twice the initial delay, with the counter
\* at 0.
C31_ReconnectedAfterSecondAttempt ==
    /\ createStatus = "resolved"
    /\ connectionState = "connected"
    /\ transport = "open"
    /\ lastDelay = 2 * DefaultInitialReconnectDelay
    /\ reconnectAttempts = 0

C33_ChangedServerReconnected ==
    Finished("reloadConfig") =>
        \A s \in DOMAIN op.params \cap DOMAIN op.before.params \cap DOMAIN op.before.states :
            op.params[s]._metadata /= op.before.params[s]._metadata =>
                /\ connectCalls[s] = 1
                /\ Has(servers, s)
                /\ servers[s].client.server = op.params[s]

\* C34: once an unexpected close has put the connection of a created client
\* into "reconnecting", it reaches "connected" or "failed" (unless disconnect is
\* called), given that every handshake settles and every backoff timer
\* fires.
C34_ReconnectSettles ==
    (createStatus = "resolved" /\ connectionState = "reconnecting")
        ~> (connectionState \in {"connected", "failed"} \/ scopeClosed)

\* C35: whenever no manager operation is in progress, getServerIds() (the
\* keys of the registry) and the keys of getState() (the aggregate state)
\* are the same set.
C35_RegistryMatchesState ==
    op.phase /= "running" => DOMAIN servers = DOMAIN stateRef

\* C38: when fromJSON has resolved, every server that is in the snapshot and
\* that the file still declares (and the parse returns) has an entry in the
\* restored manager's aggregate state; and if that is every server of the
\* snapshot, toJSON of the restored manager lists the snapshot's server ids.
C38_RestoreKeepsSnapshotServers ==
    (Finished("fromJSON") /\ Has(op.snapshot, "configPath"))
    => /\ \A s \in DOMAIN op.snapshot.servers \cap DOMAIN op.params : Has(stateRef, s)
       /\ (DOMAIN op.snapshot.servers = DOMAIN op.params)
            => DOMAIN toJSON(stateRef, configPath).servers = DOMAIN op.snapshot.servers

\* C37: once close() has resolved, and as long as no further operation is
\* started, the registry and the aggregate state hold no server that they
\* did not hold when close() resolved.
C37_NothingAddedAfterClose ==
    (closed.resolved /\ opsDone = closed.ops)
    => /\ DOMAIN servers \subseteq closed.servers
       /\ DOMAIN stateRef \subseteq closed.states

\* C39: when connectFromFile has been rejected, the remembered config path,
\* the registry and the aggregate state are what they were before the call,
\* and a reloadConfig that follows is not rejected for a file that cannot be
\* found.
C39_FailedLoadChangesNothing ==
    /\ (op.name = "connectFromFile" /\ op.phase = "rejected")
       => /\ configPath = op.before.configPath
          /\ servers = op.before.servers
          /\ stateRef = op.before.states
    /\ (op.name = "reloadConfig" /\ op.phase = "rejected")
       => op.error /= "FileNotFoundError"

====
